---- MODULE Spec2Model ----
(***************************************************************************)
(* The request layer of the student-face-recognition mobile client.        *)
(*                                                                         *)
(*  - makeRequest of mobile/screens/StudentsListScreen.tsx: fetch with an  *)
(*    AbortController timeout, retried in a for loop with capped           *)
(*    exponential backoff;                                                 *)
(*  - the list screen's apiService wrappers and the react-query retry      *)
(*    options of useQuery / useMutation around them;                       *)
(*  - the single-shot services (axios ApiService, the menu screen's        *)
(*    fetchWithTimeout, the recognition screen's bare fetch).              *)
(*  - two makeRequest invocations in flight together (SpecConcurrent);     *)
(*  - the create forms AddStudentScreen and CreateStudentScreen, the       *)
(*    request they send and the record fetched back (SpecForm);            *)
(*  - the react-query cache of the roster across the create, edit and      *)
(*    delete screens (SpecRoster);                                         *)
(*  - the menu, settings and recognition screens of the stack navigator,   *)
(*    their loading flags and alerts (SpecApp).                            *)
(*                                                                         *)
(* One step of the model is one turn of the JavaScript event loop: the     *)
(* synchronous code between two awaits runs atomically.  Time is abstract: *)
(* an armed timer may fire at any moment while it is armed; waits are      *)
(* recorded by their length in milliseconds.                               *)
(***************************************************************************)
EXTENDS Integers, Sequences, FiniteSets, TLC

\* Largest retry ceiling handed to a direct makeRequest call.
MaxRetries == 5
\* Smallest retry ceiling handed to a direct makeRequest call.
MinRetries == -1
\* Student ids known to the backend at start.
MaxId == 1
\* Create requests followed on one form.
MaxSubmits == 2

DefaultTimeout == 15000
DefaultRetries == 3
BackoffBase == 1000
BackoffCap == 5000

RosterTimeout == 20000
RosterRetries == 5
DeleteTimeout == 15000
DeleteRetries == 3
HealthTimeout == 10000
HealthRetries == 2
QueryRetry == 3
MutationRetry == 2

\* HTTP statuses the transport can deliver (one per class).
Statuses == {200, 404, 500}
Ids == 1..MaxId

Is2xx(s) == s \in 200..299
Is4xx(s) == s \in 400..499
Is5xx(s) == s \in 500..599

\* Mutant of Min: the larger of the two.
MinLarger(a, b) == IF a < b THEN b ELSE a

\* Math.min(a, b)
Min(a, b) == IF a < b THEN a ELSE b

RECURSIVE Pow2(_)
Pow2(n) == IF n <= 0 THEN 1 ELSE 2 * Pow2(n - 1)

(***************************************************************************)
(* Values a call can return or throw.  text is the fixed text of an error  *)
(* message: for the error an apiService wrapper rethrows, the words it     *)
(* puts in front of the message of the error it caught.                    *)
(***************************************************************************)
NoError      == [kind |-> "none",        status |-> 0,   text |-> ""]
Data         == [kind |-> "data",        status |-> 200, text |-> ""]
AbortError   == [kind |-> "AbortError",  status |-> 0,   text |-> ""]
TypeError    == [kind |-> "TypeError",   status |-> 0,   text |-> ""]
SyntaxError  == [kind |-> "SyntaxError", status |-> 0,   text |-> ""]
GenericError == [kind |-> "Error",       status |-> 0,   text |-> ""]
HttpError(s) == [kind |-> "HttpError",   status |-> s,   text |-> ""]

VARIABLES
    op,            \* operation in progress: "none", "call", "getStudents", ...
    opArg,         \* student id of a delete, 0 otherwise
    opState,       \* "idle", "running", "retryDelay", "settled", "cancelled"
    opResult,      \* what the caller of the operation received
    failureCount,  \* react-query's count of failed queryFn / mutationFn runs
    priorRequests, \* requests issued by earlier makeRequest runs of the operation
    faults,        \* TRUE once the transport has failed the operation in any way
    retries,       \* makeRequest: options.retries
    timeout,       \* makeRequest: options.timeout
    attempt,       \* makeRequest: loop counter
    phase,         \* makeRequest: "idle", "fetch", "body", "backoff", "returned", "thrown"
    status,        \* status of the response whose body is being read, else 0
    lastError,     \* makeRequest: lastError
    result,        \* value returned (Data) or error thrown by makeRequest
    hist,          \* outcome of each finished attempt of this makeRequest run
    requests,      \* fetch calls issued by this makeRequest run
    waited,        \* milliseconds of backoff waited by this makeRequest run
    timers,        \* attempts of this run whose setTimeout is still armed
    staleTimers,   \* TRUE while a timer of an earlier run may still be armed
    run,           \* parity of the number of makeRequest runs started so far
    students,      \* ids on the backend roster
    deleted,       \* ids whose delete was reported to the user as successful
    selectedImage, \* RecognizeScreen: an image is selected
    isProcessing,  \* RecognizeScreen: isProcessing
    uiTimers,      \* RecognizeScreen: setTimeout callbacks not yet run
    calls,         \* concurrent makeRequest invocations: the locals of each
    answers,       \* per invocation, how the transport ended each of its attempts
    form,          \* the create form: screen, step, fields, photo, flags
    sent,          \* the create requests issued and the fields of the last one
    created,       \* the last create: values given, record stored, record fetched
    cache,         \* the roster on the backend and in the query cache, by version
    menu,          \* MenuScreen: the route in front, its state, its runs and alert
    settings,      \* SettingsScreen: its state, its health checks and its report
    recognition    \* RecognitionScreen: its state, its dialogs and its requests

screenVars == <<selectedImage, isProcessing, uiTimers>>
concurrentVars == <<calls, answers>>
formVars   == <<form, sent, created>>
viewVars   == <<cache, menu, settings, recognition>>
otherVars  == <<concurrentVars, formVars, viewVars>>
opFrame  == <<op, opArg, opState, opResult, failureCount, priorRequests, deleted,
              screenVars, otherVars>>
opVars   == <<opFrame, faults>>
callVars == <<retries, timeout, attempt, phase, status, lastError, result,
              hist, requests, waited, run>>
vars     == <<op, opArg, opState, opResult, failureCount, priorRequests, faults,
              retries, timeout, attempt, phase, status, lastError, result,
              hist, requests, waited, timers, staleTimers, run, students, deleted,
              selectedImage, isProcessing, uiTimers, calls, answers, form, sent,
              created, cache, menu, settings, recognition>>

\* The two calls that are in flight together.
CallIds == {"healthCheck", "getStudents"}

\* The locals of a makeRequest invocation that has not started.
IdleFrame ==
    [retries |-> 0, attempt |-> 1, phase |-> "idle", status |-> 0,
     lastError |-> NoError, result |-> NoError, hist |-> <<>>,
     requests |-> 0, waited |-> 0, timers |-> {}]

(***************************************************************************)
(* Text of the form fields, as sequences of characters.                    *)
(***************************************************************************)
NameTexts == {<<>>, <<" ">>, <<" ", "a">>}
CodeTexts == {<<>>, <<" ">>, <<"a", "1">>, <<"a", "b", "1", "2", "3", "4">>}
MailTexts == {<<>>, <<" ">>, <<"a">>, <<" ", "@">>, <<"A", "@", "b", ".", "c">>}

\* The form as useState initialises it; screen "none": no create screen open.
EmptyForm(sc) ==
    [screen |-> sc, step |-> 1, nombre |-> <<>>, apellidos |-> <<>>,
     codigo |-> <<>>, correo |-> <<>>, requisitoriado |-> FALSE,
     image |-> "none", busy |-> FALSE, alert |-> "none"]

NoRequest ==
    [count |-> 0, nombre |-> <<>>, apellidos |-> <<>>, codigo |-> <<>>,
     correo |-> <<>>, requisitoriado |-> "false", image |-> "none"]

\* A StudentRecord as the backend returns it; id 0: no record.
NoRecord ==
    [id |-> 0, nombre |-> <<>>, apellidos |-> <<>>, codigo |-> <<>>,
     correo |-> <<>>, requisitoriado |-> FALSE]

\* Mutations through this client followed on the roster.
MaxMutations == 2
\* Requests of recognition screens removed from the stack that are in flight.
MaxOrphans == 1

\* No screen of the roster stack is open and the query cache is empty.  The
\* versions count the mutations the backend has executed; cached -1: no data.
NoRoster ==
    [screen |-> "menu", backend |-> 0, cached |-> -1, invalidated |-> FALSE,
     stale |-> FALSE, fetching |-> "none", snapshot |-> 0, pending |-> "none",
     last |-> 0, lastKind |-> "none"]

\* MenuScreen as it mounts (the initial route): useState(null), useState(true)
\* and the run of loadInitialData that useEffect starts, awaiting checkHealth.
\* inHealth / inRoster count the runs awaiting checkHealth / getStudents;
\* last is the outcome of the run that completed last.
MenuMounted ==
    [at |-> "Menu", loading |-> TRUE, serverStatus |-> "null",
     inHealth |-> 1, inRoster |-> 0, alert |-> FALSE, last |-> "none"]

\* SettingsScreen as it mounts: useState(null), useState(false), and the
\* checkServerHealth and loadStats that useEffect starts.  seen is the
\* serverStatus of the render whose handleTestConnection is running; tested
\* the outcome of the health check that run awaited; report the alert it has
\* shown.
SettingsMounted ==
    [serverStatus |-> "null", loading |-> FALSE, mountCheck |-> TRUE,
     stats |-> "pending", testing |-> FALSE, seen |-> "null", tested |-> "none",
     report |-> "none"]

\* RecognitionScreen as it mounts: useState(false), nothing selected.
\* inFlight counts the requests of the mounted screen, orphans those of
\* screens removed from the stack; dialog is the alert of the mounted screen,
\* overlay the alert a removed screen or the timer has shown; alarm: the timer
\* of the security alert is pending.
RecognitionMounted ==
    [loading |-> FALSE, inFlight |-> 0, dialog |-> "none", picking |-> FALSE,
     image |-> FALSE, retried |-> FALSE, settled |-> "none",
     orphans |-> 0, overlay |-> "none", alarm |-> FALSE]

NothingCreated ==
    [screen |-> "none", given |-> NoRecord, stored |-> NoRecord, fetched |-> NoRecord]

Init ==
    /\ op = "none" /\ opArg = 0 /\ opState = "idle" /\ opResult = NoError
    /\ failureCount = 0 /\ priorRequests = 0 /\ faults = FALSE
    /\ retries = DefaultRetries /\ timeout = DefaultTimeout
    /\ attempt = 1 /\ phase = "idle" /\ status = 0
    /\ lastError = NoError /\ result = NoError
    /\ hist = <<>> /\ requests = 0 /\ waited = 0
    /\ timers = {} /\ staleTimers = FALSE /\ run = 0
    /\ students = Ids /\ deleted = {}
    /\ selectedImage = FALSE /\ isProcessing = FALSE /\ uiTimers = {}
    /\ calls = [c \in CallIds |-> IdleFrame]
    /\ answers = [c \in CallIds |-> <<>>]
    /\ form = EmptyForm("none")
    /\ sent = NoRequest
    /\ created = NothingCreated
    /\ cache = NoRoster
    /\ menu = MenuMounted
    /\ settings = SettingsMounted
    /\ recognition = RecognitionMounted

(***************************************************************************)
(* makeRequest                                                             *)
(***************************************************************************)

\* Mutant of Delay: the backoff without its ceiling.
DelayUncapped(n) == BackoffBase * Pow2(n - 1)

\* const delay = Math.min(1000 * Math.pow(2, attempt - 1), 5000)
Delay(n) == Min(BackoffBase * Pow2(n - 1), BackoffCap)

\* Mutant of LoopTest: the loop stops one attempt early.
LoopTestStrict(a, r) == a < r

\* The loop test of `for (let attempt = 1; attempt <= retries; attempt++)`.
LoopTest(a, r) == a <= r

\* Mutant of LastAttempt: the catch block gives up one attempt early.
LastAttemptEarly(a, r) == a >= r - 1

\* The test of the catch block that ends the retries.
LastAttempt(a, r) == a = r

\* Mutant of Caught: the first error is kept, later ones are dropped.
CaughtFirst(error) == IF lastError = NoError THEN error ELSE lastError

\* What the catch block keeps in lastError.
Caught(error) == error

\* Mutant of makeRequest: the loop body runs once before the count is tested.
makeRequestAtLeastOnce(R, T) ==
    /\ retries' = R /\ timeout' = T
    /\ attempt' = 1 /\ status' = 0
    /\ lastError' = NoError
    /\ hist' = <<>> /\ waited' = 0
    /\ staleTimers' = (staleTimers \/ timers # {})
    /\ run' = 1 - run
    /\ phase' = "fetch" /\ timers' = {1} /\ requests' = 1
    /\ result' = NoError

\* Entry of makeRequest(endpoint, {timeout: T, retries: R}) up to the first await.
makeRequest(R, T) ==
    /\ retries' = R /\ timeout' = T
    /\ attempt' = 1 /\ status' = 0
    /\ lastError' = NoError
    /\ hist' = <<>> /\ waited' = 0
    /\ staleTimers' = (staleTimers \/ timers # {})
    /\ run' = 1 - run
    /\ IF LoopTest(1, R)
       THEN /\ phase' = "fetch" /\ timers' = {1} /\ requests' = 1
            /\ result' = NoError
       ELSE /\ phase' = "thrown" /\ timers' = {} /\ requests' = 0
            /\ result' = GenericError

\* catch (error) { lastError = error; if (attempt === retries) throw lastError;
\*                 delay = ...; await new Promise(r => setTimeout(r, delay)) }
Catch(error) ==
    /\ lastError' = Caught(error)
    /\ hist' = Append(hist, error)
    /\ status' = 0
    /\ IF LastAttempt(attempt, retries)
       THEN /\ phase' = "thrown" /\ result' = lastError' /\ waited' = waited
       ELSE /\ phase' = "backoff" /\ result' = result
            /\ waited' = waited + Delay(attempt)
    /\ UNCHANGED <<retries, timeout, attempt, requests, run>>

\* The statuses the backend can answer the pending request with, and the
\* roster it leaves.  A DELETE is answered 200 when the record exists (and is
\* removed) and 404 when it does not; any request can be answered 5xx.
Answer(s, roster) ==
    IF op \in {"deleteStudent", "ApiService.deleteStudent"}
    THEN \/ s = 200 /\ opArg \in students /\ roster = students \ {opArg}
         \/ s = 404 /\ opArg \notin students /\ roster = students
         \/ s = 500 /\ roster = students
    ELSE roster = students

\* The answer the backend itself gives when it is healthy and reachable.
Genuine(s) ==
    IF op \in {"deleteStudent", "ApiService.deleteStudent"} THEN s \in {200, 404}
    ELSE s = 200

\* A request that got no response may or may not have been executed.
Lost(roster) ==
    \/ roster = students
    \/ /\ op \in {"deleteStudent", "ApiService.deleteStudent"}
       /\ roster = students \ {opArg}

\* fetch resolves: the response headers arrived; clearTimeout(timeoutId).
Response ==
    /\ phase = "fetch"
    /\ \E s \in Statuses :
          /\ Answer(s, students')
          /\ status' = s
          /\ faults' = (faults \/ ~Genuine(s))
    /\ timers' = timers \ {attempt}
    /\ phase' = "body"
    /\ UNCHANGED <<retries, timeout, attempt, lastError, result, hist, requests,
                   waited, staleTimers, run>>
    /\ UNCHANGED opFrame

\* fetch rejects with a network failure; line 81 is skipped, the timer stays armed.
FetchRejects ==
    /\ phase = "fetch"
    /\ Catch(TypeError)
    /\ faults' = TRUE
    /\ Lost(students')
    /\ UNCHANGED <<timers, staleTimers>>
    /\ UNCHANGED opFrame

\* The timer of the pending attempt fires: controller.abort(), fetch rejects.
TimeoutFires ==
    /\ phase = "fetch"
    /\ attempt \in timers
    /\ timers' = timers \ {attempt}
    /\ Catch(AbortError)
    /\ faults' = TRUE
    /\ Lost(students')
    /\ UNCHANGED staleTimers
    /\ UNCHANGED opFrame

\* if (!response.ok) { errorText = await response.text(); throw new Error(...) }
ErrorBody ==
    /\ phase = "body"
    /\ ~Is2xx(status)
    /\ Catch(HttpError(status))
    /\ UNCHANGED faults
    /\ UNCHANGED <<timers, staleTimers, students>>
    /\ UNCHANGED opFrame

\* const data = await response.json(); return data
JsonResolves ==
    /\ phase = "body"
    /\ Is2xx(status)
    /\ phase' = "returned"
    /\ result' = Data
    /\ hist' = Append(hist, Data)
    /\ status' = 0
    /\ UNCHANGED <<retries, timeout, attempt, lastError, requests, waited, run>>
    /\ UNCHANGED <<timers, staleTimers, students>>
    /\ UNCHANGED opVars

\* response.json() rejects: the body of the 2xx response is not JSON.
JsonRejects ==
    /\ phase = "body"
    /\ Is2xx(status)
    /\ Catch(SyntaxError)
    /\ faults' = TRUE
    /\ UNCHANGED <<timers, staleTimers, students>>
    /\ UNCHANGED opFrame

\* The backoff wait is over: attempt++, loop test, arm a timer, fetch again.
BackoffElapsed ==
    /\ phase = "backoff"
    /\ attempt' = attempt + 1
    /\ IF LoopTest(attempt + 1, retries)
       THEN /\ phase' = "fetch"
            /\ timers' = timers \cup {attempt + 1}
            /\ requests' = requests + 1
            /\ result' = result
       ELSE /\ phase' = "thrown"
            /\ result' = IF lastError # NoError THEN lastError ELSE GenericError
            /\ UNCHANGED <<timers, requests>>
    /\ UNCHANGED <<retries, timeout, status, lastError, hist, waited, run>>
    /\ UNCHANGED <<staleTimers, students>>
    /\ UNCHANGED opVars

\* Mutant of Controller: one controller outside the loop, shared by all
\* attempts and calls.
ControllerShared(r, i) == <<0, 0>>

\* const controller = new AbortController() inside the try block: the timer
\* callback of attempt i of run r closes over the controller of that attempt.
Controller(r, i) == <<r, i>>

\* The timer of attempt i of run r, firing now, aborts the pending fetch: the
\* signal that fetch was given is the one of the controller the timer aborts.
Aborts(r, i) == phase = "fetch" /\ Controller(r, i) = Controller(run, attempt)

\* controller.abort() of a timer that is not the pending attempt's own: the
\* pending fetch rejects when it listens to that controller, and nothing
\* happens otherwise.
LateAbort(r, i) ==
    IF Aborts(r, i)
    THEN /\ Catch(AbortError)
         /\ faults' = TRUE
         /\ Lost(students')
         /\ UNCHANGED opFrame
    ELSE /\ UNCHANGED <<callVars, students>>
         /\ UNCHANGED opVars

\* A timer left armed by an attempt that is over fires.
LateTimerFires ==
    /\ \E i \in timers :
          /\ ~(phase = "fetch" /\ i = attempt)
          /\ timers' = timers \ {i}
          /\ LateAbort(run, i)
    /\ UNCHANGED staleTimers

\* A timer left armed by an earlier run of makeRequest fires.
StaleTimerFires ==
    /\ staleTimers
    /\ staleTimers' = FALSE
    /\ LateAbort(1 - run, 1)
    /\ UNCHANGED timers

MakeRequestStep ==
    \/ Response
    \/ FetchRejects
    \/ TimeoutFires
    \/ ErrorBody
    \/ JsonResolves
    \/ JsonRejects
    \/ BackoffElapsed
    \/ LateTimerFires
    \/ StaleTimerFires

\* A caller awaits makeRequest(endpoint, {retries: R}) directly.
Call ==
    /\ op \in {"none", "call"}
    /\ phase \in {"idle", "returned", "thrown"}
    /\ \E R \in MinRetries..MaxRetries : makeRequest(R, DefaultTimeout)
    /\ op' = "call" /\ opState' = "running" /\ faults' = FALSE
    /\ UNCHANGED <<opArg, opResult, failureCount, priorRequests, students, deleted,
                   screenVars>>
    /\ UNCHANGED otherVars

NextCall == Call \/ MakeRequestStep

SpecCall == Init /\ [][NextCall]_vars

\* The event loop runs a timer callback once its delay has elapsed.
SpecCallFair == SpecCall /\ WF_vars(BackoffElapsed)

(***************************************************************************)
(* The list screen: apiService over makeRequest, under react-query         *)
(***************************************************************************)
ListOps == {"getStudents", "deleteStudent", "healthCheck"}

\* The options each apiService method passes to makeRequest.
Options(o) ==
    CASE o = "getStudents"   -> [retries |-> RosterRetries, timeout |-> RosterTimeout]
      [] o = "deleteStudent" -> [retries |-> DeleteRetries, timeout |-> DeleteTimeout]
      [] o = "healthCheck"   -> [retries |-> HealthRetries, timeout |-> HealthTimeout]
      [] OTHER               -> [retries |-> DefaultRetries, timeout |-> DefaultTimeout]

\* What the catch block of the apiService method rethrows: a new Error whose
\* message is a text followed by the message of the error it caught.
Wrapped(o, error) ==
    CASE o = "getStudents" ->
             [error EXCEPT !.text = "No se pudieron cargar los estudiantes: "]
      [] o = "deleteStudent" ->
             [error EXCEPT !.text = "Error eliminando estudiante: "]
      [] OTHER -> error

\* The retry option: useQuery retries while failureCount < 3, deleteMutation
\* has retry: 2; runTests calls healthCheck directly.
ShouldRetry(o, n) ==
    CASE o = "getStudents"   -> n < QueryRetry
      [] o = "deleteStudent" -> n < MutationRetry
      [] OTHER               -> FALSE

\* The first run of the operation's function.
StartOp(o, id) ==
    /\ opState \in {"idle", "settled", "cancelled"}
    /\ phase \in {"idle", "returned", "thrown"}
    /\ op' = o /\ opArg' = id
    /\ opState' = "running" /\ opResult' = NoError
    /\ failureCount' = 0 /\ priorRequests' = 0 /\ faults' = FALSE
    /\ makeRequest(Options(o).retries, Options(o).timeout)
    /\ UNCHANGED <<students, deleted, screenVars>>
    /\ UNCHANGED otherVars

\* useQuery({queryKey: ['students'], queryFn: apiService.getStudents}) fetches.
FetchStudents == StartOp("getStudents", 0)

\* confirmDelete -> deleteMutation.mutate(student.id)
DeleteStudent == \E id \in Ids : StartOp("deleteStudent", id)

\* NetworkDebugger.runTests -> apiService.healthCheck()
HealthCheck == StartOp("healthCheck", 0)

\* makeRequest has returned or thrown: the apiService method returns or
\* rethrows, and react-query settles the operation or schedules a retry.
OpSettles ==
    /\ opState = "running"
    /\ op \in ListOps
    /\ phase \in {"returned", "thrown"}
    /\ IF phase = "returned"
       THEN /\ opState' = "settled"
            /\ opResult' = Data
            /\ deleted' = IF op = "deleteStudent" THEN deleted \cup {opArg}
                          ELSE deleted
            /\ UNCHANGED failureCount
       ELSE IF ShouldRetry(op, failureCount)
       THEN /\ failureCount' = failureCount + 1
            /\ opState' = "retryDelay"
            /\ UNCHANGED <<opResult, deleted>>
       ELSE /\ opState' = "settled"
            /\ opResult' = Wrapped(op, result)
            /\ UNCHANGED <<failureCount, deleted>>
    /\ UNCHANGED <<op, opArg, priorRequests, faults, screenVars>>
    /\ UNCHANGED <<callVars, timers, staleTimers, students>>
    /\ UNCHANGED otherVars

\* The retry delay of react-query is over: the function runs again.
RetryDelayElapsed ==
    /\ opState = "retryDelay"
    /\ opState' = "running"
    /\ priorRequests' = priorRequests + requests
    /\ makeRequest(Options(op).retries, Options(op).timeout)
    /\ UNCHANGED <<op, opArg, opResult, failureCount, faults, students, deleted,
                   screenVars>>
    /\ UNCHANGED otherVars

\* The screen unmounts (or the query is cancelled) while the roster query is
\* fetching.  queryFn is apiService.getStudents, which takes no argument: the
\* signal react-query offers is not read and makeRequest is given none, so the
\* query only stops its own retries and drops the outcome; the makeRequest
\* run it started is left alone.
Unmount ==
    /\ op = "getStudents"
    /\ opState \in {"running", "retryDelay"}
    /\ opState' = "cancelled"
    /\ UNCHANGED <<op, opArg, opResult, failureCount, priorRequests, faults,
                   deleted, screenVars>>
    /\ UNCHANGED <<callVars, timers, staleTimers, students>>
    /\ UNCHANGED otherVars

\* Requests issued so far for the operation in progress.
OpRequests == priorRequests + requests

Next ==
    \/ FetchStudents
    \/ DeleteStudent
    \/ HealthCheck
    \/ OpSettles
    \/ RetryDelayElapsed
    \/ Unmount
    \/ MakeRequestStep

Spec == Init /\ [][Next]_vars

(***************************************************************************)
(* The single-shot services: one request, no retry                         *)
(*                                                                         *)
(*  "ApiService.*"      the axios ApiService (120000 ms client timeout)    *)
(*  "old.*"             the axios ApiService of src/services/apiService.js *)
(*  "menu.*"            the menu screen's apiService over fetchWithTimeout *)
(*  "RecognizeScreen.*" the recognition screen's own fetch                 *)
(***************************************************************************)
AxiosTimeout == 120000
OldAxiosTimeout == 30000
AxiosHealthTimeout == 10000
AxiosCreateTimeout == 60000
MenuStatsTimeout == 15000

AxiosOps == {"ApiService.checkHealth", "ApiService.deleteStudent",
             "ApiService.getRecognitionStats", "ApiService.recognizeStudent",
             "ApiService.getStudent", "ApiService.getStudents",
             "ApiService.createStudent", "ApiService.updateStudent",
             "old.getRecognitionStats", "old.recognizeStudent", "old.getStudents"}

AxiosStatuses == {200, 400, 403, 404, 422, 500}

\* Values the services return.
RawBody   == [kind |-> "raw",       status |-> 200, text |-> ""]
NullBody  == [kind |-> "null",      status |-> 200, text |-> ""]
ZeroStats == [kind |-> "zeroStats", status |-> 0,   text |-> ""]
Message(t) == [kind |-> "Error", status |-> 0, text |-> t]

\* What an async method resolves with when control falls off its end.
Undefined == [kind |-> "undefined", status |-> 0, text |-> ""]

Returned(r) == r.kind \in {"data", "raw", "null", "zeroStats", "undefined"}
Thrown(r)   == r.kind \notin {"none", "data", "raw", "null", "zeroStats", "undefined"}

\* The TypeError of reading a property of null.
PropertyOfNull ==
    [kind |-> "TypeError", status |-> 0, text |-> "Cannot read property of null"]

\* How an axios request can end.  body: "json" (a JSON body), "detail" (a JSON
\* body with a detail field), "raw" (not JSON), "null" (the JSON text null).
AxiosOutcomes ==
    [kind : {"response"}, status : AxiosStatuses,
     body : {"json", "detail", "raw", "null"}]
    \cup {[kind |-> "network", status |-> 0, body |-> "raw"],
          [kind |-> "timeout", status |-> 0, body |-> "raw"]}

\* axios resolves on 2xx with response.data (left as the raw string when it
\* does not parse) and rejects otherwise.
AxiosResolves(out) == out.kind = "response" /\ Is2xx(out.status)
AxiosData(out) ==
    CASE out.body = "raw"  -> RawBody
      [] out.body = "null" -> NullBody
      [] OTHER             -> Data
AxiosErrorOf(out) ==
    CASE out.kind = "timeout" -> [kind |-> "ECONNABORTED", status |-> 0, text |-> ""]
      [] out.kind = "network" -> [kind |-> "ERR_NETWORK", status |-> 0, text |-> ""]
      [] OTHER -> [kind |-> "ERR_BAD_RESPONSE", status |-> out.status,
                   text |-> IF out.body = "detail" THEN "detail" ELSE ""]

\* error.response.data?.detail || fallback
DetailOr(error, fallback) == IF error.text = "detail" THEN "detail" ELSE fallback

\* Mutant of handleApiError: without a response the error is logged and the
\* function returns.
handleApiErrorReturning(error, defaultMessage) ==
    IF error.status # 0
    THEN CASE error.status = 400 -> Message(DetailOr(error, "Datos invalidos"))
           [] error.status = 404 -> Message("Recurso no encontrado")
           [] error.status = 422 -> Message("Error de validacion de datos")
           [] error.status >= 500 -> Message("Error interno del servidor")
           [] OTHER -> Message(DetailOr(error, defaultMessage))
    ELSE Undefined

\* ApiService.handleApiError(error, defaultMessage).  An error axios made
\* without a response carries error.request; an error thrown by the method's
\* own code carries neither and its message is kept.
handleApiError(error, defaultMessage) ==
    IF error.status # 0
    THEN CASE error.status = 400 -> Message(DetailOr(error, "Datos invalidos"))
           [] error.status = 404 -> Message("Recurso no encontrado")
           [] error.status = 422 -> Message("Error de validacion de datos")
           [] error.status >= 500 -> Message("Error interno del servidor")
           [] OTHER -> Message(DetailOr(error, defaultMessage))
    ELSE IF error.kind \in {"ECONNABORTED", "ERR_NETWORK"}
    THEN Message("Sin conexion al servidor")
    ELSE Message(IF error.text # "" THEN error.text ELSE defaultMessage)

\* Evaluating what the method logs after the response throws: getStudents logs
\* response.data.length, and response.data is null.
LogThrows(o, out) ==
    /\ o \in {"ApiService.getStudents", "old.getStudents"}
    /\ AxiosResolves(out)
    /\ out.body = "null"

\* The catch block of ApiService.recognizeStudent.
RecognizeError(error) ==
    IF error.kind = "ECONNABORTED"
    THEN Message("Timeout: El reconocimiento esta tomando demasiado tiempo")
    ELSE IF error.status = 400
    THEN Message(DetailOr(error, "Imagen invalida o sin rostro detectado"))
    ELSE IF error.status >= 500
    THEN Message("Error del servidor. Intenta nuevamente.")
    ELSE IF error.status = 0
    THEN Message("Sin conexion al servidor. Verifica tu internet.")
    ELSE error

\* The catch block of getRecognitionStats (ApiService and menu screen).
StatsFailure(error) == ZeroStats

\* The catch block of getRecognitionStats in src/services/apiService.js:
\* console.error(...); throw error.
OldStatsFailure(error) == error

\* What each axios service gives its caller for an outcome of its request.
ServiceResult(o, out) ==
    CASE o = "ApiService.checkHealth" ->
             IF AxiosResolves(out) THEN AxiosData(out)
             ELSE Message("Servidor no disponible")
      [] o = "ApiService.deleteStudent" ->
             IF AxiosResolves(out) THEN AxiosData(out)
             ELSE handleApiError(AxiosErrorOf(out), "No se pudo eliminar el estudiante")
      [] o = "ApiService.getRecognitionStats" ->
             IF AxiosResolves(out) THEN AxiosData(out)
             ELSE StatsFailure(AxiosErrorOf(out))
      [] o = "ApiService.recognizeStudent" ->
             IF AxiosResolves(out) THEN AxiosData(out)
             ELSE RecognizeError(AxiosErrorOf(out))
      [] o = "old.getRecognitionStats" ->
             IF AxiosResolves(out) THEN AxiosData(out)
             ELSE OldStatsFailure(AxiosErrorOf(out))
      [] o = "old.recognizeStudent" ->
             IF AxiosResolves(out) THEN AxiosData(out)
             ELSE AxiosErrorOf(out)
      [] o = "ApiService.getStudents" ->
             IF LogThrows(o, out)
             THEN handleApiError(PropertyOfNull, "No se pudieron cargar los estudiantes")
             ELSE IF AxiosResolves(out) THEN AxiosData(out)
             ELSE handleApiError(AxiosErrorOf(out), "No se pudieron cargar los estudiantes")
      [] o = "old.getStudents" ->
             IF LogThrows(o, out) THEN PropertyOfNull
             ELSE IF AxiosResolves(out) THEN AxiosData(out)
             ELSE AxiosErrorOf(out)
      [] o = "ApiService.getStudent" ->
             IF AxiosResolves(out) THEN AxiosData(out)
             ELSE handleApiError(AxiosErrorOf(out), "No se pudo obtener el estudiante")
      [] o = "ApiService.createStudent" ->
             IF AxiosResolves(out) THEN AxiosData(out)
             ELSE handleApiError(AxiosErrorOf(out), "No se pudo crear el estudiante")
      [] o = "ApiService.updateStudent" ->
             IF AxiosResolves(out) THEN AxiosData(out)
             ELSE handleApiError(AxiosErrorOf(out), "No se pudo actualizar el estudiante")
      [] OTHER -> NoError

(***************************************************************************)
(* The body of a response of POST /api/recognize, field by field; "absent" *)
(* stands for a field the body does not have (undefined in JavaScript).    *)
(***************************************************************************)
RecognitionPayloads ==
    [success    : {"absent"},
     found      : {"true", "false"},
     student    : {"absent", "student"},
     similarity : {"0.87"},
     confidence : {"absent", "high"},
     message    : {"absent", "message"}]

\* A body that is not a JSON object: every field read from it is undefined.
NoFields ==
    [success |-> "absent", found |-> "absent", student |-> "absent",
     similarity |-> "absent", confidence |-> "absent", message |-> "absent"]

\* v || d
Or(v, d) == IF v \in {"absent", "false", "0", ""} THEN d ELSE v

\* transformedResponse of src/services/apiService.js recognizeStudent.
transformedResponse(backendData) ==
    [success    |-> Or(backendData.found, "false"),
     found      |-> Or(backendData.found, "false"),
     student    |-> Or(backendData.student, "null"),
     similarity |-> Or(backendData.similarity, "0"),
     confidence |-> Or(backendData.confidence, "Baja"),
     message    |-> Or(backendData.message, "Procesado correctamente")]

\* The decoded body b as a value.
RecognitionResult(b) == [kind |-> "data", status |-> 200, text |-> "", body |-> b]

IsRecognize(o) == o \in {"ApiService.recognizeStudent", "old.recognizeStudent"}

\* The bodies a 2xx answer to the request of o can have.
Bodies(o, out) ==
    IF IsRecognize(o) /\ AxiosResolves(out)
    THEN IF out.body \in {"raw", "null"} THEN {NoFields} ELSE RecognitionPayloads
    ELSE {NoFields}

\* What the request of o ended with.
Received(o, out, b) ==
    IF ~AxiosResolves(out) THEN AxiosErrorOf(out)
    ELSE IF IsRecognize(o) /\ out.body \notin {"raw", "null"} THEN RecognitionResult(b)
    ELSE AxiosData(out)

\* Mutant of Delivered: every recognizeStudent returns a transformedResponse.
DeliveredTransformed(o, out, b) ==
    IF ~AxiosResolves(out) THEN ServiceResult(o, out)
    ELSE IF IsRecognize(o) THEN RecognitionResult(transformedResponse(b))
    ELSE ServiceResult(o, out)

\* What o gives its caller: recognizeStudent of the ApiService returns
\* response.data, the one of src/services/apiService.js transformedResponse.
Delivered(o, out, b) ==
    IF ~AxiosResolves(out) THEN ServiceResult(o, out)
    ELSE IF o = "old.recognizeStudent"
    THEN IF out.body = "null" THEN PropertyOfNull
         ELSE RecognitionResult(transformedResponse(b))
    ELSE IF IsRecognize(o) THEN Received(o, out, b)
    ELSE ServiceResult(o, out)

ServiceTimeout(o) ==
    CASE o = "ApiService.checkHealth" -> AxiosHealthTimeout
      [] o = "ApiService.createStudent" -> AxiosCreateTimeout
      [] o = "old.getRecognitionStats" -> OldAxiosTimeout
      [] o = "old.recognizeStudent" -> OldAxiosTimeout
      [] o = "menu.getRecognitionStats" -> MenuStatsTimeout
      [] OTHER -> AxiosTimeout

IsDelete(o) == o \in {"deleteStudent", "ApiService.deleteStudent"}

\* No operation is in progress on any screen.
Quiet ==
    /\ opState \in {"idle", "settled"}
    /\ ~isProcessing
    /\ uiTimers = {}

\* One request is issued; armed says whether a timeout is set for it.
Issue(o, id, ph, armed) ==
    /\ op' = o /\ opArg' = id
    /\ opState' = "running" /\ opResult' = NoError
    /\ failureCount' = 0 /\ priorRequests' = 0 /\ faults' = FALSE
    /\ retries' = 1 /\ attempt' = 1 /\ timeout' = ServiceTimeout(o)
    /\ phase' = ph /\ status' = 0
    /\ lastError' = NoError /\ result' = NoError
    /\ hist' = <<>> /\ requests' = 1 /\ waited' = 0
    /\ timers' = IF armed THEN {1} ELSE {}
    /\ staleTimers' = (staleTimers \/ timers # {})
    /\ run' = 1 - run

\* The request ended with h and the service settles: its caller receives r.
Settle(h, r) ==
    /\ opState' = "settled"
    /\ opResult' = r
    /\ result' = r
    /\ phase' = IF Returned(r) THEN "returned" ELSE "thrown"
    /\ status' = 0
    /\ hist' = Append(hist, h)
    /\ UNCHANGED <<op, opArg, failureCount, priorRequests>>
    /\ UNCHANGED <<retries, timeout, attempt, lastError, requests, waited, run>>

\* A method of an axios ApiService is called: this.client.get/post/delete.
AxiosRequest ==
    /\ Quiet
    /\ \E o \in AxiosOps :
          \E id \in (IF IsDelete(o) THEN Ids ELSE {0}) :
             Issue(o, id, "axios", TRUE)
    /\ UNCHANGED <<students, deleted, screenVars>>
    /\ UNCHANGED otherVars

\* The axios promise settles and the method returns or throws.
AxiosSettles ==
    /\ phase = "axios"
    /\ \E out \in AxiosOutcomes :
          /\ IF out.kind = "response"
             THEN Answer(out.status, students') /\ faults' = (faults \/ ~Genuine(out.status))
             ELSE Lost(students') /\ faults' = TRUE
          /\ \E b \in Bodies(op, out) :
                Settle(Received(op, out, b), Delivered(op, out, b))
          /\ deleted' = IF IsDelete(op) /\ AxiosResolves(out)
                        THEN deleted \cup {opArg} ELSE deleted
    /\ timers' = {}
    /\ UNCHANGED <<staleTimers, screenVars>>
    /\ UNCHANGED otherVars

\* The menu screen's query runs apiService.getRecognitionStats, which awaits
\* fetchWithTimeout(url, 15000).
MenuStatsRequest ==
    /\ Quiet
    /\ Issue("menu.getRecognitionStats", 0, "menuFetch", TRUE)
    /\ UNCHANGED <<students, deleted, screenVars>>
    /\ UNCHANGED otherVars

\* fetchWithTimeout settles; it clears its timer on both paths.  A non-2xx
\* response, a network failure and the abort all end in the catch block.
MenuFetchSettles ==
    /\ phase = "menuFetch"
    /\ timers' = {}
    /\ \/ \E s \in Statuses :
            /\ faults' = (faults \/ ~Genuine(s))
            /\ IF Is2xx(s)
               THEN /\ phase' = "menuBody"
                    /\ status' = s
                    /\ UNCHANGED <<op, opArg, opState, opResult, failureCount,
                                   priorRequests>>
                    /\ UNCHANGED <<retries, timeout, attempt, lastError, result,
                                   hist, requests, waited, run>>
               ELSE Settle(HttpError(s), StatsFailure(HttpError(s)))
       \/ \E e \in {TypeError, AbortError} :
            /\ faults' = TRUE
            /\ Settle(e, StatsFailure(e))
    /\ UNCHANGED <<students, deleted, staleTimers, screenVars>>
    /\ UNCHANGED otherVars

\* const stats = await response.json(), with no timer armed any more.
MenuBodySettles ==
    /\ phase = "menuBody"
    /\ \/ Settle(Data, Data) /\ UNCHANGED faults
       \/ Settle(SyntaxError, StatsFailure(SyntaxError)) /\ faults' = TRUE
    /\ UNCHANGED <<timers, students, deleted, staleTimers, screenVars>>
    /\ UNCHANGED otherVars

\* RecognizeScreen: takePhoto / pickFromGallery set the image.
SelectImage ==
    /\ Quiet
    /\ selectedImage' = TRUE
    /\ UNCHANGED <<isProcessing, uiTimers>>
    /\ UNCHANGED <<op, opArg, opState, opResult, failureCount, priorRequests,
                   deleted, faults>>
    /\ UNCHANGED <<callVars, timers, staleTimers, students>>
    /\ UNCHANGED otherVars

\* RecognizeScreen.clearAll, offered while not processing.
ClearAll ==
    /\ Quiet
    /\ selectedImage
    /\ selectedImage' = FALSE
    /\ UNCHANGED <<isProcessing, uiTimers>>
    /\ UNCHANGED <<op, opArg, opState, opResult, failureCount, priorRequests,
                   deleted, faults>>
    /\ UNCHANGED <<callVars, timers, staleTimers, students>>
    /\ UNCHANGED otherVars

\* RecognizeScreen.recognizeStudent up to `await fetch(...)`: the fetch is
\* given no signal and no timer is set.
RecognizeRequest ==
    /\ Quiet
    /\ selectedImage
    /\ isProcessing' = TRUE
    /\ Issue("RecognizeScreen.recognizeStudent", 0, "recognizeFetch", FALSE)
    /\ UNCHANGED <<students, deleted, selectedImage, uiTimers>>
    /\ UNCHANGED otherVars

\* What the screen does with the outcome it has, once `finally` is reached:
\* setTimeout(() => setIsProcessing(false), 1000).
RecognizeFinally(h, r, show) ==
    /\ Settle(h, r)
    /\ uiTimers' = uiTimers \cup {"finally"} \cup (IF show THEN {"show"} ELSE {})

\* fetch settles: a response of any status goes on to response.json(); a
\* rejection goes to catch and finally.
RecognizeFetchSettles ==
    /\ phase = "recognizeFetch"
    /\ \/ \E s \in Statuses :
            /\ faults' = (faults \/ ~Genuine(s))
            /\ phase' = "recognizeBody"
            /\ status' = s
            /\ UNCHANGED <<op, opArg, opState, opResult, failureCount, priorRequests>>
            /\ UNCHANGED <<retries, timeout, attempt, lastError, result, hist,
                           requests, waited, run>>
            /\ UNCHANGED uiTimers
       \/ /\ faults' = TRUE
          /\ RecognizeFinally(TypeError,
                              Message("No se pudo conectar con el servidor"), FALSE)
    /\ UNCHANGED <<timers, staleTimers, students, deleted, selectedImage, isProcessing>>
    /\ UNCHANGED otherVars

\* response.json() settles: the result or the error alert is scheduled 500 ms
\* later, or the rejection goes to catch; then finally.
RecognizeBodySettles ==
    /\ phase = "recognizeBody"
    /\ \/ /\ IF Is2xx(status)
             THEN RecognizeFinally(Data, Data, TRUE)
             ELSE RecognizeFinally(HttpError(status),
                                   Message("Error en el reconocimiento"), TRUE)
          /\ UNCHANGED faults
       \/ /\ faults' = TRUE
          /\ RecognizeFinally(SyntaxError,
                              Message("No se pudo conectar con el servidor"), FALSE)
    /\ UNCHANGED <<timers, staleTimers, students, deleted, selectedImage, isProcessing>>
    /\ UNCHANGED otherVars

\* A setTimeout callback of the screen runs: the 500 ms one shows the outcome,
\* the 1000 ms one of `finally` sets isProcessing to false.
UiTimerFires ==
    /\ \E t \in uiTimers :
          /\ uiTimers' = uiTimers \ {t}
          /\ isProcessing' = IF t = "finally" THEN FALSE ELSE isProcessing
    /\ UNCHANGED selectedImage
    /\ UNCHANGED <<op, opArg, opState, opResult, failureCount, priorRequests,
                   deleted, faults>>
    /\ UNCHANGED <<callVars, timers, staleTimers, students>>
    /\ UNCHANGED otherVars

NextServices ==
    \/ AxiosRequest
    \/ AxiosSettles
    \/ MenuStatsRequest
    \/ MenuFetchSettles
    \/ MenuBodySettles
    \/ SelectImage
    \/ ClearAll
    \/ RecognizeRequest
    \/ RecognizeFetchSettles
    \/ RecognizeBodySettles
    \/ UiTimerFires

SpecServices == Init /\ [][NextServices]_vars

(***************************************************************************)
(* Calls in flight together: the roster query of the list screen runs      *)
(* while runTests awaits apiService.healthCheck.  Each is one invocation   *)
(* of makeRequest, with the options of its apiService method.              *)
(***************************************************************************)
restVars == <<op, opArg, opState, opResult, failureCount, priorRequests, faults,
              deleted, screenVars, callVars, timers, staleTimers, students>>


\* Mutant of Frame: the locals are module-level, one set for all invocations.
FrameShared(c) == "healthCheck"

\* lastError, attempt, controller and timeoutId are declared inside makeRequest
\* (let / const): every invocation has locals of its own.
Frame(c) == c

Local(c) == calls[Frame(c)]

\* The locals after the entry of makeRequest(endpoint, {retries: R}).
EnterFrame(R) ==
    IF LoopTest(1, R)
    THEN [IdleFrame EXCEPT !.retries = R, !.phase = "fetch", !.timers = {1},
                           !.requests = 1]
    ELSE [IdleFrame EXCEPT !.retries = R, !.phase = "thrown",
                           !.result = GenericError]

\* The locals after the catch block has run for error.
CatchFrame(fr, error) ==
    IF LastAttempt(fr.attempt, fr.retries)
    THEN [fr EXCEPT !.lastError = error, !.hist = Append(@, error), !.status = 0,
                    !.phase = "thrown", !.result = error]
    ELSE [fr EXCEPT !.lastError = error, !.hist = Append(@, error), !.status = 0,
                    !.phase = "backoff", !.waited = @ + Delay(fr.attempt)]

\* Invocation c goes on with the locals fr; the transport ended its attempt
\* with h (NoError: no attempt ended in this step).
Proceed(c, fr, h) ==
    /\ calls' = [calls EXCEPT ![Frame(c)] = fr]
    /\ answers' = IF h = NoError THEN answers
                  ELSE [answers EXCEPT ![c] = Append(@, h)]
    /\ UNCHANGED <<restVars, formVars, viewVars>>

ConcurrentCall(c) ==
    /\ Local(c).phase = "idle"
    /\ Proceed(c, EnterFrame(Options(c).retries), NoError)

ConcurrentResponse(c) ==
    /\ Local(c).phase = "fetch"
    /\ \E s \in Statuses :
          Proceed(c, [Local(c) EXCEPT !.status = s, !.phase = "body",
                                      !.timers = @ \ {Local(c).attempt}], NoError)

ConcurrentFetchRejects(c) ==
    /\ Local(c).phase = "fetch"
    /\ Proceed(c, CatchFrame(Local(c), TypeError), TypeError)

ConcurrentTimeoutFires(c) ==
    /\ Local(c).phase = "fetch"
    /\ Local(c).attempt \in Local(c).timers
    /\ Proceed(c, CatchFrame([Local(c) EXCEPT !.timers = @ \ {Local(c).attempt}],
                             AbortError), AbortError)

ConcurrentErrorBody(c) ==
    /\ Local(c).phase = "body"
    /\ ~Is2xx(Local(c).status)
    /\ Proceed(c, CatchFrame(Local(c), HttpError(Local(c).status)),
               HttpError(Local(c).status))

ConcurrentJsonResolves(c) ==
    /\ Local(c).phase = "body"
    /\ Is2xx(Local(c).status)
    /\ Proceed(c, [Local(c) EXCEPT !.phase = "returned", !.result = Data,
                                   !.hist = Append(@, Data), !.status = 0], Data)

ConcurrentJsonRejects(c) ==
    /\ Local(c).phase = "body"
    /\ Is2xx(Local(c).status)
    /\ Proceed(c, CatchFrame(Local(c), SyntaxError), SyntaxError)

ConcurrentBackoffElapsed(c) ==
    /\ Local(c).phase = "backoff"
    /\ Proceed(c, IF LoopTest(Local(c).attempt + 1, Local(c).retries)
                  THEN [Local(c) EXCEPT !.attempt = @ + 1, !.phase = "fetch",
                                        !.timers = @ \cup {Local(c).attempt + 1},
                                        !.requests = @ + 1]
                  ELSE [Local(c) EXCEPT !.attempt = @ + 1, !.phase = "thrown",
                                        !.result = Local(c).lastError],
               NoError)

ConcurrentLateTimerFires(c) ==
    \E i \in Local(c).timers :
        /\ ~(Local(c).phase = "fetch" /\ i = Local(c).attempt)
        /\ Proceed(c, [Local(c) EXCEPT !.timers = @ \ {i}], NoError)

NextConcurrent ==
    \E c \in CallIds :
        \/ ConcurrentCall(c)
        \/ ConcurrentResponse(c)
        \/ ConcurrentFetchRejects(c)
        \/ ConcurrentTimeoutFires(c)
        \/ ConcurrentErrorBody(c)
        \/ ConcurrentJsonResolves(c)
        \/ ConcurrentJsonRejects(c)
        \/ ConcurrentBackoffElapsed(c)
        \/ ConcurrentLateTimerFires(c)

SpecConcurrent == Init /\ [][NextConcurrent]_vars

(***************************************************************************)
(* The create forms: AddStudentScreen (three steps, its own fetch) and     *)
(* CreateStudentScreen (one page, ApiService.createStudent).               *)
(***************************************************************************)
RECURSIVE TrimStart(_)
TrimStart(t) == IF t # <<>> /\ Head(t) = " " THEN TrimStart(Tail(t)) ELSE t

RECURSIVE TrimEnd(_)
TrimEnd(t) ==
    IF t # <<>> /\ t[Len(t)] = " " THEN TrimEnd(SubSeq(t, 1, Len(t) - 1)) ELSE t

\* String.prototype.trim
Trim(t) == TrimEnd(TrimStart(t))

\* String.prototype.includes, for one character
Includes(t, ch) == \E i \in 1..Len(t) : t[i] = ch

UpperOf(ch) == CASE ch = "a" -> "A" [] ch = "b" -> "B" [] ch = "c" -> "C" [] OTHER -> ch
LowerOf(ch) == CASE ch = "A" -> "a" [] ch = "B" -> "b" [] ch = "C" -> "c" [] OTHER -> ch
toUpperCase(t) == [i \in 1..Len(t) |-> UpperOf(t[i])]
toLowerCase(t) == [i \in 1..Len(t) |-> LowerOf(t[i])]

\* t[i..j] is a non-empty run of [^\s@]
Plain(t, i, j) == i <= j /\ \A k \in i..j : t[k] \notin {" ", "@"}

\* /^[^\s@]+@[^\s@]+\.[^\s@]+$/.test(email)
isValidEmail(t) ==
    \E a \in 1..Len(t) : \E d \in 1..Len(t) :
        /\ a < d /\ t[a] = "@" /\ t[d] = "."
        /\ Plain(t, 1, a - 1) /\ Plain(t, a + 1, d - 1) /\ Plain(t, d + 1, Len(t))

CodeMinLength == 6

\* Mutant of validateStep: the email is tested for being non-empty only.
validateStepNoAt(step) ==
    CASE step = 1 -> form.image # "none"
      [] step = 2 -> Trim(form.nombre) # <<>> /\ Trim(form.apellidos) # <<>>
      [] step = 3 -> Trim(form.codigo) # <<>> /\ Trim(form.correo) # <<>>
      [] OTHER -> TRUE

\* AddStudentScreen.validateStep(step)
validateStep(step) ==
    CASE step = 1 -> form.image # "none"
      [] step = 2 -> Trim(form.nombre) # <<>> /\ Trim(form.apellidos) # <<>>
      [] step = 3 -> /\ Trim(form.codigo) # <<>>
                     /\ Trim(form.correo) # <<>>
                     /\ Includes(form.correo, "@")
      [] OTHER -> TRUE

\* CreateStudentScreen.validateForm()
validateForm ==
    /\ Trim(form.nombre) # <<>>
    /\ Trim(form.apellidos) # <<>>
    /\ Trim(form.codigo) # <<>> /\ ~(Len(form.codigo) < CodeMinLength)
    /\ Trim(form.correo) # <<>> /\ isValidEmail(form.correo)
    /\ form.image # "none"

\* Mutant of submitForm: the fields are sent as typed.
submitFormAsTyped ==
    [count |-> sent.count + 1,
     nombre |-> form.nombre, apellidos |-> form.apellidos,
     codigo |-> form.codigo, correo |-> form.correo,
     requisitoriado |-> IF form.requisitoriado THEN "true" ELSE "false",
     image |-> form.image]

\* The multipart fields AddStudentScreen.submitForm appends.
submitForm ==
    [count |-> sent.count + 1,
     nombre |-> Trim(form.nombre), apellidos |-> Trim(form.apellidos),
     codigo |-> toUpperCase(Trim(form.codigo)),
     correo |-> toLowerCase(Trim(form.correo)),
     requisitoriado |-> IF form.requisitoriado THEN "true" ELSE "false",
     image |-> form.image]

\* The multipart fields ApiService.createStudent(formData, selectedImage) appends.
createStudent ==
    [count |-> sent.count + 1,
     nombre |-> form.nombre, apellidos |-> form.apellidos,
     codigo |-> form.codigo, correo |-> form.correo,
     requisitoriado |-> IF form.requisitoriado THEN "true" ELSE "false",
     image |-> form.image]

\* The values the user has given the form, as they stand in its state.
Given ==
    [id |-> 0, nombre |-> form.nombre, apellidos |-> form.apellidos,
     codigo |-> form.codigo, correo |-> form.correo,
     requisitoriado |-> form.requisitoriado]

FormFrame == UNCHANGED <<restVars, concurrentVars, viewVars>>

\* Navigation opens one of the two create screens.
OpenForm ==
    /\ form.screen = "none"
    /\ \E sc \in {"add", "create"} : form' = EmptyForm(sc)
    /\ UNCHANGED <<sent, created>> /\ FormFrame

\* takePhoto / pickFromGallery (step 1 of AddStudentScreen), handleImageResponse.
PickPhoto ==
    /\ form.screen \in {"add", "create"} /\ form.alert = "none"
    /\ form.screen = "add" => form.step = 1
    /\ \E img \in {"photo1", "photo2"} : form' = [form EXCEPT !.image = img]
    /\ UNCHANGED <<sent, created>> /\ FormFrame

\* onChangeText of the name fields (step 2 of AddStudentScreen).
ChangeName ==
    /\ form.screen \in {"add", "create"} /\ form.alert = "none"
    /\ form.screen = "add" => form.step = 2
    /\ \E t \in NameTexts :
          \/ form' = [form EXCEPT !.nombre = t]
          \/ form' = [form EXCEPT !.apellidos = t]
    /\ UNCHANGED <<sent, created>> /\ FormFrame

\* onChangeText of the code: text.toUpperCase() (step 3 of AddStudentScreen).
ChangeCode ==
    /\ form.screen \in {"add", "create"} /\ form.alert = "none"
    /\ form.screen = "add" => form.step = 3
    /\ \E t \in CodeTexts : form' = [form EXCEPT !.codigo = toUpperCase(t)]
    /\ UNCHANGED <<sent, created>> /\ FormFrame

\* onChangeText of the email: as typed in AddStudentScreen, value.toLowerCase()
\* in CreateStudentScreen.
ChangeMail ==
    /\ form.screen \in {"add", "create"} /\ form.alert = "none"
    /\ form.screen = "add" => form.step = 3
    /\ \E t \in MailTexts :
          form' = [form EXCEPT !.correo = IF form.screen = "create"
                                          THEN toLowerCase(t) ELSE t]
    /\ UNCHANGED <<sent, created>> /\ FormFrame

\* onValueChange of the switch.
ChangeFlag ==
    /\ form.screen \in {"add", "create"} /\ form.alert = "none"
    /\ form.screen = "add" => form.step = 3
    /\ form' = [form EXCEPT !.requisitoriado = ~@]
    /\ UNCHANGED <<sent, created>> /\ FormFrame

\* AddStudentScreen.nextStep: validateStep(currentStep), then the next step or
\* submitForm up to its `await fetch`.
nextStep ==
    /\ form.screen = "add" /\ form.alert = "none" /\ ~form.busy
    /\ IF ~validateStep(form.step)
       THEN form' = [form EXCEPT !.alert = "invalid"] /\ UNCHANGED <<sent, created>>
       ELSE IF form.step < 3
       THEN form' = [form EXCEPT !.step = @ + 1] /\ UNCHANGED <<sent, created>>
       ELSE /\ sent.count < MaxSubmits
            /\ form' = [form EXCEPT !.busy = TRUE]
            /\ sent' = submitForm
            /\ created' = [NothingCreated EXCEPT !.screen = "add", !.given = Given]
    /\ FormFrame

\* AddStudentScreen.prevStep
prevStep ==
    /\ form.screen = "add" /\ form.alert = "none" /\ ~form.busy
    /\ form.step > 1
    /\ form' = [form EXCEPT !.step = @ - 1]
    /\ UNCHANGED <<sent, created>> /\ FormFrame

\* CreateStudentScreen.handleSubmit up to `await ApiService.createStudent`.
handleSubmit ==
    /\ form.screen = "create" /\ form.alert = "none" /\ ~form.busy
    /\ IF ~validateForm
       THEN form' = [form EXCEPT !.alert = "invalid"] /\ UNCHANGED <<sent, created>>
       ELSE /\ sent.count < MaxSubmits
            /\ form' = [form EXCEPT !.busy = TRUE]
            /\ sent' = createStudent
            /\ created' = [NothingCreated EXCEPT !.screen = "create", !.given = Given]
    /\ FormFrame

\* POST /api/students: the backend stores the fields of the request under a
\* new id, the code in upper case, the flag as a boolean.
BackendCreate(request) ==
    [id |-> request.count,
     nombre |-> request.nombre, apellidos |-> request.apellidos,
     codigo |-> toUpperCase(request.codigo), correo |-> request.correo,
     requisitoriado |-> (request.requisitoriado = "true")]

\* ApiService.getStudent(id): response.data of GET /api/students/{id}.
getStudent(record) == record

\* The create request settles: the success or the error alert, then finally.
\* On success the backend has stored the record.
SubmitSettles ==
    /\ form.busy
    /\ \/ /\ form' = [form EXCEPT !.busy = FALSE, !.alert = "success"]
          /\ created' = [created EXCEPT !.stored = BackendCreate(sent)]
       \/ /\ form' = [form EXCEPT !.busy = FALSE, !.alert = "error"]
          /\ UNCHANGED created
    /\ UNCHANGED sent /\ FormFrame

\* The record just created is fetched by the id the backend gave it.
FetchCreated ==
    /\ created.stored.id # 0
    /\ created.fetched.id = 0
    /\ created' = [created EXCEPT !.fetched = getStudent(created.stored)]
    /\ UNCHANGED <<form, sent>> /\ FormFrame

\* A button of the alert is pressed.  After a success AddStudentScreen resets
\* the form and goes back; CreateStudentScreen goes to the list or resetForm.
AlertPressed ==
    /\ form.alert # "none"
    /\ IF form.alert = "success"
       THEN \/ form' = EmptyForm("none")
            \/ form.screen = "create" /\ form' = EmptyForm("create")
       ELSE form' = [form EXCEPT !.alert = "none"]
    /\ UNCHANGED <<sent, created>> /\ FormFrame

NextForm ==
    \/ OpenForm
    \/ PickPhoto
    \/ ChangeName
    \/ ChangeCode
    \/ ChangeMail
    \/ ChangeFlag
    \/ nextStep
    \/ prevStep
    \/ handleSubmit
    \/ SubmitSettles
    \/ FetchCreated
    \/ AlertPressed

SpecForm == Init /\ [][NextForm]_vars

(***************************************************************************)
(* States of a call, in the words of the specification's state machine.    *)
(***************************************************************************)
CallState ==
    CASE phase = "idle"                -> "Idle"
      [] phase \in {"fetch", "body"}   -> "Pending"
      [] phase = "backoff"             -> "Retrying"
      [] phase = "returned"            -> "Succeeded"
      [] phase = "thrown" /\ result.kind = "AbortError"  -> "TimedOut"
      [] phase = "thrown" /\ result.kind = "TypeError"   -> "TransportFailed"
      [] phase = "thrown" /\ result.kind = "SyntaxError" -> "DecodeFailed"
      [] phase = "thrown" /\ result.kind = "HttpError" /\ Is4xx(result.status)
                                       -> "ClientFailed"
      [] phase = "thrown" /\ result.kind = "HttpError" /\ Is5xx(result.status)
                                       -> "ServerFailed"
      [] phase = "thrown"              -> "Failed"
      [] OTHER                         -> "None"

Terminal(st) == st \in {"Succeeded", "ClientFailed", "ServerFailed", "TimedOut",
                        "TransportFailed", "DecodeFailed", "Failed"}

IsServerError(e) == e.kind = "HttpError" /\ Is5xx(e.status)
IsClientError(e) == e.kind = "HttpError" /\ Is4xx(e.status)

(***************************************************************************)
(* C1..C3, C7, C8: one makeRequest call                                    *)
(***************************************************************************)

\* The transport answered 5xx on attempts 1..k-1 and 2xx with JSON on attempt k.
ServerErrorsThenJson(k) ==
    /\ Len(hist) >= k
    /\ \A i \in 1..(k - 1) : IsServerError(hist[i])
    /\ hist[k] = Data

\* The transport has answered 5xx on every attempt so far.
OnlyServerErrors == \A i \in 1..Len(hist) : IsServerError(hist[i])

\* C1: with 5xx on attempts 1..k-1 and 2xx with a JSON body on attempt k <= R,
\* the call returns the decoded body after exactly k requests; as long as only
\* 5xx has been answered and the ceiling is not reached, the call is still on
\* its way to the next attempt, with one request per attempt.
C1_SuccessAfterServerErrors ==
    /\ \A k \in 1..(MaxRetries + 1) :
          ServerErrorsThenJson(k) =>
              /\ k <= retries
              /\ phase = "returned"
              /\ result = Data
              /\ requests = k
              /\ Len(hist) = k
    /\ (phase # "idle" /\ OnlyServerErrors /\ Len(hist) < retries) =>
              /\ phase \in {"fetch", "body", "backoff"}
              /\ requests = Len(hist) + (IF phase = "backoff" THEN 0 ELSE 1)

C1_Witness ==
    /\ retries >= 3
    /\ ServerErrorsThenJson(3)
    /\ phase = "returned"
    /\ requests = 3

\* C2 (as claimed): a 4xx answer on the first attempt ends the call at once:
\* one request, no backoff wait, the error carries the status.
C2_ClientErrorNotRetried ==
    (Len(hist) >= 1 /\ IsClientError(hist[1])) =>
        /\ phase = "thrown"
        /\ requests = 1
        /\ waited = 0
        /\ result = hist[1]

\* The waits of the specification: min(1000 * 2^(n-1), 5000) for n = 1..m.
RECURSIVE SumOfWaits(_)
SumOfWaits(m) ==
    IF m <= 0 THEN 0
    ELSE SumOfWaits(m - 1) + (IF 1000 * 2^(m - 1) < 5000 THEN 1000 * 2^(m - 1) ELSE 5000)

\* Every attempt so far failed with 5xx or with the timeout.
OnlyServerErrorsOrTimeouts ==
    \A i \in 1..Len(hist) : IsServerError(hist[i]) \/ hist[i] = AbortError

\* C3: when every attempt fails with 5xx or timeout, the call fails after
\* exactly `retries` attempts, not before, and has then waited the sum of
\* min(1000*2^(n-1), 5000) for n = 1..retries-1 (for a count `retries` that
\* is not negative: a number of attempts).
C3_ExhaustedRetries ==
    (phase # "idle" /\ retries >= 0 /\ OnlyServerErrorsOrTimeouts) =>
        /\ (phase = "thrown") <=> (Len(hist) = retries)
        /\ phase = "thrown" =>
              /\ requests = retries
              /\ waited = SumOfWaits(retries - 1)
              /\ retries >= 1 => (IsServerError(result) \/ result = AbortError)

C3_Witness ==
    /\ retries = 5
    /\ phase = "thrown"
    /\ OnlyServerErrorsOrTimeouts
    /\ \E i \in 1..Len(hist) : hist[i] = AbortError
    /\ requests = 5
    /\ waited = 12000

\* C7: when all attempts of a call fail, the error thrown to the caller is the
\* error of the final attempt, whatever the earlier attempts failed with.
C7_FinalAttemptError ==
    (phase = "thrown" /\ Len(hist) >= 1) =>
        /\ result = hist[Len(hist)]
        /\ hist[Len(hist)] = AbortError => CallState = "TimedOut"
        /\ hist[Len(hist)] = TypeError => CallState = "TransportFailed"
        /\ IsServerError(hist[Len(hist)]) => CallState = "ServerFailed"

C7_Witness ==
    /\ phase = "thrown"
    /\ Len(hist) = 3
    /\ hist[1] = TypeError
    /\ IsServerError(hist[2])
    /\ hist[3] = AbortError
    /\ result = AbortError

\* C8: the only step a call takes out of Retrying is into Pending; a call in an
\* end state issues no further request and keeps its outcome; no outcome is
\* delivered before an end state is reached.
C8_StateMachine ==
    [][ /\ (CallState = "Retrying" /\ run' = run) =>
               CallState' \in {"Retrying", "Pending"}
        /\ (Terminal(CallState) /\ run' = run) =>
               /\ CallState' = CallState
               /\ result' = result
               /\ requests' = requests
               /\ waited' = waited
        /\ ~Terminal(CallState') => result' = NoError
        /\ Terminal(CallState') => result' # NoError
      ]_vars

\* With the backoff timer firing (SpecCallFair), Retrying does lead to Pending.
RetryingLeadsToPending == (CallState = "Retrying") ~> (CallState = "Pending")

C8_Witness ==
    /\ CallState = "ServerFailed"
    /\ requests = 3
    /\ timers = {}
    /\ ~staleTimers

(***************************************************************************)
(* C4, C5: operations of the list screen                                   *)
(***************************************************************************)

\* C4 (as claimed): the requests issued for one operation of the list screen
\* never exceed the ceiling of that operation (5 roster, 3 delete, 2 health).
C4_RetryCeilingPerOperation ==
    op \in ListOps => OpRequests <= Options(op).retries

\* What does hold: the ceiling bounds each makeRequest run, and react-query
\* multiplies it by its own runs (4 for the roster, 3 for a delete).
RetryCeilingPerRun ==
    op \in ListOps =>
        /\ requests <= Options(op).retries
        /\ OpRequests <= Options(op).retries * (failureCount + 1)
        /\ failureCount <= (IF op = "getStudents" THEN QueryRetry
                            ELSE IF op = "deleteStudent" THEN MutationRetry ELSE 0)

\* C5 (as claimed): a delete of an id whose delete already succeeded, with the
\* transport healthy, issues one request and ends in the not-found error.
C5_SecondDeleteOneRequest ==
    (op = "deleteStudent" /\ opArg \in deleted /\ ~faults) =>
        \/ opState = "settled" /\ opResult = Data
        \/ /\ OpRequests <= 1
           /\ opState = "settled" =>
                 /\ opResult.kind = "HttpError"
                 /\ opResult.status = 404

(***************************************************************************)
(* C6, C9, C10: the single-shot services                                   *)
(***************************************************************************)
StatsOps == {"ApiService.getRecognitionStats", "menu.getRecognitionStats",
             "old.getRecognitionStats"}

\* The request of the operation got no response, timed out or was answered
\* with a non-2xx status or (menu screen) an undecodable body.
FetchFailed == Len(hist) >= 1 /\ hist[1].kind \notin {"data", "raw", "null"}

\* C6 (as claimed): however the stats fetch fails, the stats operation gives
\* its caller the zeroed counters and raises nothing.
C6_StatsDegradeToZero ==
    (op \in StatsOps /\ opState = "settled" /\ FetchFailed) =>
        /\ opResult = ZeroStats
        /\ ~Thrown(opResult)

\* The two stats operations that have the catch-and-default do degrade.
StatsDegradeWhereCaught ==
    (op \in {"ApiService.getRecognitionStats", "menu.getRecognitionStats"}
        /\ opState = "settled" /\ FetchFailed) => opResult = ZeroStats

IsTimeout(e) == e.kind \in {"AbortError", "ECONNABORTED"}

\* No attempt of the operation got a response: each ended in its timeout.
NoResponseEver ==
    /\ Len(hist) >= 1
    /\ \A i \in 1..Len(hist) : IsTimeout(hist[i])

HealthOps == {"healthCheck", "ApiService.checkHealth"}

\* C9 (as claimed): a health check with the 10000 ms budget whose requests
\* never get a response makes as many attempts as its ceiling (2 in the list
\* screen, 1 for the axios service) and then fails with the timeout error.
C9_HealthCheckTimesOut ==
    (op \in HealthOps /\ timeout = 10000 /\ NoResponseEver /\ opState = "settled") =>
        /\ IsTimeout(opResult)
        /\ OpRequests = (IF op = "healthCheck" THEN 2 ELSE 1)

\* A request is on its way and no response has arrived.
RequestPending == phase \in {"fetch", "axios", "menuFetch", "recognizeFetch"}

\* C10 (as claimed): every request is issued with a timeout armed, the
\* recognition screen's included.
C10_EveryRequestHasTimeout ==
    RequestPending => attempt \in timers

\* Without the timeout the screen has no step of its own left: only the
\* transport can end the request, and isProcessing stays true until it does.
RecognizeOnlyTransportEnds ==
    (op = "RecognizeScreen.recognizeStudent" /\ phase = "recognizeFetch") =>
        /\ isProcessing
        /\ timers = {}
        /\ uiTimers = {}

(***************************************************************************)
(* C11, C12: the messages of the axios ApiService                          *)
(***************************************************************************)

\* The message of an error the caller receives: the text of a `new Error`,
\* and for an error axios made, the message axios gave it.
MessageOf(r) ==
    CASE r.kind = "Error"            -> r.text
      [] r.kind = "ERR_BAD_RESPONSE" -> "Request failed with status code"
      [] r.kind = "ECONNABORTED"     -> "timeout exceeded"
      [] r.kind = "ERR_NETWORK"      -> "Network Error"
      [] OTHER                       -> ""

\* The generic message of the specification for a status without detail.
GenericMessages(s) ==
    CASE s = 400 -> {"Datos invalidos", "Imagen invalida o sin rostro detectado"}
      [] s = 404 -> {"Recurso no encontrado"}
      [] s = 422 -> {"Error de validacion de datos"}
      [] OTHER   -> {"No se pudo obtener el estudiante",
                     "No se pudo eliminar el estudiante"}

\* The services whose catch block maps the error of the request to a message.
MessageOps == {"ApiService.deleteStudent", "ApiService.getStudent",
               "ApiService.recognizeStudent"}

\* The request of the operation was answered 4xx.
AnsweredClientError ==
    /\ Len(hist) = 1
    /\ hist[1].kind = "ERR_BAD_RESPONSE"
    /\ Is4xx(hist[1].status)

\* C11 (as claimed): when the 4xx response has a detail field the error given
\* to the caller carries that detail, for every 4xx status; the generic message
\* of the status is used only when the field is absent.
C11_ClientErrorCarriesDetail ==
    (op \in MessageOps /\ opState = "settled" /\ AnsweredClientError) =>
        IF hist[1].text = "detail"
        THEN MessageOf(opResult) = "detail"
        ELSE MessageOf(opResult) \in GenericMessages(hist[1].status)

\* What does hold: the detail is carried for 400 only.
DetailCarriedFor400 ==
    (op \in MessageOps /\ opState = "settled" /\ AnsweredClientError
        /\ hist[1].status = 400) =>
        IF hist[1].text = "detail"
        THEN MessageOf(opResult) = "detail"
        ELSE MessageOf(opResult) \in GenericMessages(400)

\* The four classes of failure of the specification.
ClassOf(error) ==
    CASE error.kind = "ECONNABORTED" -> "timeout"
      [] error.kind = "ERR_NETWORK"  -> "connectivity"
      [] Is4xx(error.status)         -> "client"
      [] Is5xx(error.status)         -> "server"
      [] OTHER                       -> "none"

\* The operation's message for the failure it had is its message for
\* failures of that class only.
TellsApart ==
    \A out \in AxiosOutcomes :
        (/\ ~AxiosResolves(out)
         /\ MessageOf(ServiceResult(op, out)) = MessageOf(opResult))
            => ClassOf(AxiosErrorOf(out)) = ClassOf(hist[1])

\* C12 (as claimed): the message of every error an ApiService operation gives
\* its caller tells apart no connectivity, timeout, 4xx and 5xx; a timed-out
\* request and a lost connection never give the same message.
C12_MessagesTellClassesApart ==
    (op \in MessageOps \cup {"ApiService.checkHealth"}
        /\ opState = "settled" /\ Thrown(opResult)) => TellsApart

\* What does hold: recognizeStudent, which tests error.code first, tells the
\* four classes apart.
RecognizeTellsApart ==
    (op = "ApiService.recognizeStudent" /\ opState = "settled" /\ Thrown(opResult))
        => TellsApart

(***************************************************************************)
(* C13: the payload of a recognition                                       *)
(***************************************************************************)

\* The request of the operation was answered 2xx with a JSON object.
AnsweredPayload ==
    /\ Len(hist) = 1
    /\ hist[1].kind = "data"
    /\ "body" \in DOMAIN hist[1]

OldRecognizeTransforms ==
    (op = "old.recognizeStudent" /\ opState = "settled" /\ AnsweredPayload) =>
        /\ timeout = 30000
        /\ opResult # hist[1]
        /\ opResult.body.success # "absent"

(***************************************************************************)
(* C14: cancellation by the screen                                         *)
(***************************************************************************)

\* C14 (as claimed): once the pending roster call is cancelled it is in a
\* cancelled end state: no further request is issued and no further backoff
\* wait is started for it.
C14_CancelStopsCall ==
    [][ (opState = "cancelled" /\ opState' = "cancelled") =>
            /\ requests' = requests
            /\ waited' = waited
      ]_vars

\* What does hold: the cancelled call raises nothing to the screen and
\* react-query does not run the function again.
CancelledIsSilent ==
    [][ (opState = "cancelled" /\ opState' = "cancelled") =>
            /\ opResult' = opResult
            /\ failureCount' = failureCount
            /\ priorRequests' = priorRequests
      ]_vars

(***************************************************************************)
(* C15: the timeout timer of an attempt                                    *)
(***************************************************************************)

\* C15 (as claimed): the timer armed for an attempt is released when the
\* attempt settles, however it settles; a call that has reached an end state
\* has no timer still armed.
C15_TimerReleasedAtEnd ==
    Terminal(CallState) => timers = {}

\* What does hold of makeRequest: a timer outlives its attempt only when that
\* attempt's fetch rejected with a network failure.
TimerLeftOnlyByRejectedFetch ==
    \A i \in timers :
        \/ phase = "fetch" /\ i = attempt
        \/ i <= Len(hist) /\ hist[i] = TypeError

\* fetchWithTimeout clears its timer on both paths.
MenuTimerReleased ==
    (op = "menu.getRecognitionStats" /\ phase # "menuFetch") => timers = {}

(***************************************************************************)
(* C16: calls in flight together                                           *)
(***************************************************************************)

\* The attempts of a, a sequence of attempt outcomes, that left a timer armed.
LeftArmed(a) == {i \in 1..Len(a) : a[i] = TypeError}

\* The locals fr are those of a call made alone with ceiling R whose attempts
\* the transport ended as a says: attempts, waits, timers and outcome.
AsAlone(fr, R, a) ==
    /\ fr.retries = R
    /\ fr.hist = a
    /\ fr.requests = Len(a) + (IF fr.phase \in {"fetch", "body"} THEN 1 ELSE 0)
    /\ fr.attempt = fr.requests
    /\ fr.waited = SumOfWaits(IF fr.phase \in {"returned", "thrown"}
                              THEN Len(a) - 1 ELSE Len(a))
    /\ (fr.phase = "returned") <=> (Len(a) >= 1 /\ a[Len(a)] = Data)
    /\ (fr.phase = "thrown") <=> (Len(a) = R /\ a[R] # Data)
    /\ fr.phase \in {"returned", "thrown"} => fr.result = a[Len(a)]
    /\ fr.phase \notin {"returned", "thrown"} => fr.result = NoError
    /\ fr.phase = "fetch" => fr.attempt \in fr.timers
    /\ fr.timers \subseteq
           LeftArmed(a) \cup (IF fr.phase = "fetch" THEN {fr.attempt} ELSE {})

\* C16: with the health check and the roster fetch in flight together, under
\* every interleaving each call's attempts, waits, timer and outcome are those
\* of the call made alone with its own options and the transport's answers to
\* its own requests.
C16_CallsIndependent ==
    \A c \in CallIds :
        Local(c).phase # "idle" => AsAlone(Local(c), Options(c).retries, answers[c])

\* The health check has timed out twice and failed while the roster fetch,
\* after a 5xx and a network failure, has returned the roster.
C16_Witness ==
    /\ Local("healthCheck").phase = "thrown"
    /\ Local("healthCheck").result = AbortError
    /\ answers["healthCheck"] = <<AbortError, AbortError>>
    /\ Local("getStudents").phase = "returned"
    /\ answers["getStudents"] = <<HttpError(500), TypeError, Data>>
    /\ Local("getStudents").waited = 3000

(***************************************************************************)
(* C17: the create form                                                    *)
(***************************************************************************)

\* The conditions of the claim, on the state of the form.
FormComplete ==
    /\ form.image # "none"
    /\ form.nombre # <<>> /\ form.apellidos # <<>> /\ form.codigo # <<>>
    /\ form.correo # <<>> /\ Includes(form.correo, "@")

\* C17: under every sequence of next / previous / edit / select-photo actions
\* of either create form, a create request is issued only from a form state
\* with a photo, non-empty given name, family name and code, and a non-empty
\* email containing '@'; the request carries one photo and such fields.
C17_CreateOnlyFromValidForm ==
    [][ sent'.count # sent.count =>
            /\ FormComplete
            /\ sent'.image = form.image
            /\ sent'.nombre # <<>> /\ sent'.apellidos # <<>> /\ sent'.codigo # <<>>
            /\ sent'.correo # <<>> /\ Includes(sent'.correo, "@")
      ]_vars

\* A second request was issued from the three-step form, with another photo
\* and the email " @", sent trimmed.
C17_Witness ==
    /\ form.screen = "add"
    /\ form.busy
    /\ sent.count = 2
    /\ sent.image = "photo2"
    /\ sent.correo = <<"@">>

(***************************************************************************)
(* C18: logging                                                            *)
(***************************************************************************)
ListServices == {"ApiService.getStudents", "old.getStudents"}

\* The request of the operation was answered 2xx.
Answered2xx == Len(hist) = 1 /\ hist[1].kind \in {"data", "raw", "null"}

\* C18 (as claimed): logging never changes the outcome.  With its log
\* statements removed, getStudents is `return response.data`: for every 2xx
\* response, a null or non-array body included, it returns the decoded body.
C18_LoggingKeepsOutcome ==
    (op \in ListServices /\ opState = "settled" /\ Answered2xx) =>
        opResult = hist[1]

\* What does hold: the outcome is kept for every body but null.
LoggingKeepsOutcomeUnlessNull ==
    (op \in ListServices /\ opState = "settled" /\ Answered2xx
        /\ hist[1].kind # "null") => opResult = hist[1]

(***************************************************************************)
(* C19: a 2xx response whose body is not JSON                              *)
(***************************************************************************)

\* C19 (as claimed): an attempt that received 2xx with a body that is not
\* valid JSON is the last one: the call has failed with the decode error and
\* that attempt's request was the last request of the call.
C19_DecodeErrorEndsLoop ==
    \A i \in 1..Len(hist) :
        hist[i] = SyntaxError =>
            /\ i = Len(hist)
            /\ phase = "thrown"
            /\ result = SyntaxError
            /\ requests = i

\* What does hold: the decode error ends the call only on the last attempt
\* the ceiling allows; before that it is retried like any failure.
DecodeErrorRetried ==
    (Len(hist) >= 1 /\ hist[Len(hist)] = SyntaxError) =>
        IF Len(hist) = retries
        THEN CallState = "DecodeFailed" /\ requests = retries
        ELSE phase \in {"backoff", "fetch", "body"}

(***************************************************************************)
(* C20: create, then fetch by id                                           *)
(***************************************************************************)

\* The record has the fields of r (id aside).
SameFields(record, r) ==
    /\ record.codigo = r.codigo
    /\ record.nombre = r.nombre
    /\ record.apellidos = r.apellidos
    /\ record.correo = r.correo
    /\ record.requisitoriado = r.requisitoriado

Normalised(g) ==
    [g EXCEPT !.nombre = Trim(g.nombre), !.apellidos = Trim(g.apellidos),
              !.codigo = toUpperCase(Trim(g.codigo)),
              !.correo = toLowerCase(Trim(g.correo))]

SpecWait(n) == IF 1000 * 2^(n - 1) < 5000 THEN 1000 * 2^(n - 1) ELSE 5000

\* C21: within one call, a wait is performed only after a failed attempt n
\* that is not the final one, it lasts min(1000*2^(n-1), 5000) ms, at most
\* 5000, and attempt n+1 starts only out of that one wait; no wait follows a
\* successful attempt or the final failed attempt.
C21_OneWaitBetweenAttempts ==
    [][ run' = run =>
          /\ waited' # waited =>
                /\ waited' - waited = SpecWait(attempt)
                /\ waited' - waited <= 5000
                /\ phase' = "backoff" /\ phase # "backoff"
                /\ attempt' = attempt /\ attempt < retries
                /\ Len(hist') = attempt /\ hist'[attempt] # Data
          /\ attempt' # attempt =>
                /\ attempt' = attempt + 1
                /\ phase = "backoff" /\ phase' = "fetch"
                /\ waited' = waited
          /\ (phase' = "backoff" /\ phase # "backoff") => waited' # waited
          /\ phase' \in {"returned", "thrown"} => waited' = waited
      ]_vars

\* The fifth attempt has succeeded after waits of 1000, 2000, 4000 and 5000 ms,
\* and nothing was waited after it.
C21_Witness ==
    /\ retries = 5
    /\ phase = "returned"
    /\ Len(hist) = 5
    /\ hist[5] = Data
    /\ waited = 12000

(***************************************************************************)
(* C22: what the timeout budget of an attempt covers                       *)
(***************************************************************************)

\* The attempt is not over: its response, or the body of it, is awaited.
AttemptPending == phase \in {"fetch", "body", "menuFetch", "menuBody"}

\* C22 (as claimed): the timeout covers the whole attempt: as long as the
\* attempt has not settled, the body of its response included, its timer is
\* armed, so that the attempt is aborted when the budget elapses.
C22_BudgetCoversBody ==
    AttemptPending => attempt \in timers

\* What does hold: the timer is armed until the response headers arrive and
\* never while the body is read.
BudgetCoversHeadersOnly ==
    /\ phase \in {"fetch", "menuFetch"} => attempt \in timers
    /\ phase \in {"body", "menuBody"} => attempt \notin timers

(***************************************************************************)
(* C23: what a delete reports and what the backend holds                   *)
(***************************************************************************)

\* C23 (as claimed): when the delete of the list screen has reported success
\* the record is absent from the backend roster, and when it has reported
\* failure the record is still present, unless its delete had been reported
\* as successful before: a delete the backend executed is never reported as
\* failed.
C23_DeleteReportMatchesRoster ==
    (op = "deleteStudent" /\ opState = "settled") =>
        IF opResult = Data
        THEN opArg \notin students
        ELSE opArg \in students \/ opArg \in deleted

\* What does hold: a delete reported as successful has removed the record.
DeleteSuccessMeansAbsent ==
    /\ (op = "deleteStudent" /\ opState = "settled" /\ opResult = Data) =>
           opArg \notin students
    /\ \A id \in deleted : id \notin students

(***************************************************************************)
(* The roster query of the list screen and the mutations around it:       *)
(* deleteMutation (list screen), updateMutation (EditStudentScreen.tsx)    *)
(* and submitForm (AddStudentScreen.tsx).  The edit and add screens are    *)
(* pushed on top of the list screen, which stays mounted beneath them.     *)
(***************************************************************************)
RosterFrame == UNCHANGED <<restVars, concurrentVars, formVars, menu, settings,
                          recognition>>

\* The query starts (or restarts) its fetch; a fetch in flight is cancelled.
Refetching(c) == [c EXCEPT !.fetching = "sent", !.snapshot = 0]

\* queryClient.invalidateQueries({queryKey: ['students']}): the query is
\* marked invalid and, having an observer, fetched again.
invalidateQueries(c) == Refetching([c EXCEPT !.invalidated = TRUE])

\* What each mutation does with the query cache when it has succeeded:
\* deleteMutation.onSuccess and updateMutation.onSuccess invalidate the roster
\* query; submitForm shows its alert and goes back.
onSuccess(kind, c) ==
    IF kind \in {"delete", "update"} THEN invalidateQueries(c) ELSE c

\* The list screen mounts: useQuery fetches when there is no data or the data
\* is stale or invalid, and shows the cached roster otherwise.
ListOpens ==
    /\ cache.screen = "menu"
    /\ cache' = IF cache.cached = -1 \/ cache.stale \/ cache.invalidated
                THEN Refetching([cache EXCEPT !.screen = "list"])
                ELSE [cache EXCEPT !.screen = "list"]
    /\ RosterFrame

\* The list screen unmounts; the cache keeps the roster (gcTime).
ListCloses ==
    /\ cache.screen = "list"
    /\ cache.pending = "none"
    /\ cache' = [cache EXCEPT !.screen = "menu"]
    /\ RosterFrame

\* The backend answers the roster request with the roster it has.
RosterAnswered ==
    /\ cache.fetching = "sent"
    /\ cache' = [cache EXCEPT !.fetching = "answered", !.snapshot = cache.backend]
    /\ RosterFrame

\* The answer arrives: the query has fresh data.
RosterArrives ==
    /\ cache.fetching = "answered"
    /\ cache' = [cache EXCEPT !.fetching = "none", !.cached = cache.snapshot,
                              !.invalidated = FALSE, !.stale = FALSE]
    /\ RosterFrame

\* The roster fetch fails for good: the query keeps the data it had.
RosterFails ==
    /\ cache.fetching # "none"
    /\ cache' = [cache EXCEPT !.fetching = "none"]
    /\ RosterFrame

\* staleTime (5 minutes) has passed since the data arrived.
StaleTimeElapsed ==
    /\ cache.cached # -1
    /\ ~cache.stale
    /\ cache' = [cache EXCEPT !.stale = TRUE]
    /\ RosterFrame

\* Pull to refresh on the list: refetch().
onRefresh ==
    /\ cache.screen = "list"
    /\ cache' = Refetching(cache)
    /\ RosterFrame

\* navigation.navigate('AddStudent') / navigate('EditStudent', {student}).
OpenMutationScreen ==
    /\ cache.screen = "list"
    /\ cache.pending = "none"
    /\ \E sc \in {"add", "edit"} : cache' = [cache EXCEPT !.screen = sc]
    /\ RosterFrame

\* navigation.goBack() from the add or the edit screen.
goBack ==
    /\ cache.screen \in {"add", "edit"}
    /\ cache.pending = "none"
    /\ cache' = [cache EXCEPT !.screen = "list"]
    /\ RosterFrame

\* The mutation of the screen in front is started.
MutationKind(sc) ==
    CASE sc = "list" -> "delete" [] sc = "edit" -> "update" [] sc = "add" -> "create"
      [] OTHER -> "none"

MutationStarts ==
    /\ cache.screen \in {"list", "edit", "add"}
    /\ cache.pending = "none"
    /\ cache.backend < MaxMutations
    /\ cache' = [cache EXCEPT !.pending = MutationKind(cache.screen)]
    /\ RosterFrame

\* The backend executes the mutation and its 2xx answer arrives.
MutationSucceeds ==
    /\ cache.pending # "none"
    /\ cache' = onSuccess(cache.pending,
                          [cache EXCEPT !.backend = @ + 1, !.last = cache.backend + 1,
                                        !.lastKind = cache.pending,
                                        !.pending = "none"])
    /\ RosterFrame

\* The mutation fails: the backend refused it, or could not be reached, or
\* executed it and its answer was lost.
MutationFails ==
    /\ cache.pending # "none"
    /\ \E executed \in {0, 1} :
          cache' = [cache EXCEPT !.pending = "none", !.backend = @ + executed]
    /\ RosterFrame

NextRoster ==
    \/ ListOpens
    \/ ListCloses
    \/ RosterAnswered
    \/ RosterArrives
    \/ RosterFails
    \/ StaleTimeElapsed
    \/ onRefresh
    \/ OpenMutationScreen
    \/ goBack
    \/ MutationStarts
    \/ MutationSucceeds
    \/ MutationFails

SpecRoster == Init /\ [][NextRoster]_vars

(***************************************************************************)
(* C24: the cached roster after a mutation                                 *)
(***************************************************************************)

\* The cache holds a roster older than the last mutation that succeeded
\* through this client.
CacheOlderThanMutation == cache.cached # -1 /\ cache.cached < cache.last

\* C24 (as claimed): after a create, update or delete has succeeded through
\* the client the cached roster is invalidated: a cached roster older than the
\* last successful mutation is marked invalid, so that the next roster the list
\* shows is fetched from the backend.
C24_MutationInvalidatesRoster ==
    CacheOlderThanMutation => cache.invalidated

\* What does hold: a cached roster older than the last successful mutation
\* and not marked invalid is there only when a create was among the
\* mutations since the roster was fetched; update and delete invalidate.
InvalidatedUnlessCreate ==
    [][ cache'.last # cache.last =>
            (cache'.lastKind \in {"delete", "update"} =>
                 cache'.invalidated /\ cache'.fetching = "sent")
      ]_vars

(***************************************************************************)
(* C25: the timeout timers of different attempts and calls                 *)
(***************************************************************************)

\* A timer fires in this step that is not the timer of the pending attempt:
\* one left by an earlier attempt of the call, or by an earlier call.
LateFire ==
    /\ run' = run
    /\ \/ staleTimers /\ ~staleTimers'
       \/ \E i \in timers \ timers' : ~(phase = "fetch" /\ i = attempt)

\* C25: a timer armed for attempt i aborts the request of attempt i only.
\* Fired late, it leaves a later attempt of the call and the request of a later
\* call pending, and leaves a call that has returned as it is: no attempt is
\* ended, no error recorded, no wait or request added.
C25_TimersIsolated ==
    [][ LateFire =>
            /\ phase' = phase /\ attempt' = attempt
            /\ hist' = hist /\ lastError' = lastError /\ result' = result
            /\ requests' = requests /\ waited' = waited
      ]_vars

\* The fetch of attempt 1 was rejected and left its timer armed; that timer and
\* the one left by the call before have fired since, and the call, whose second
\* attempt was pending meanwhile, has returned its data.
C25_Witness ==
    /\ op = "call"
    /\ hist = <<TypeError, Data>>
    /\ phase = "returned"
    /\ result = Data
    /\ timers = {}
    /\ ~staleTimers

(***************************************************************************)
(* C26: a call with no attempt allowed                                     *)
(***************************************************************************)

\* C26: a call made with a retry count of 0 or less has issued no request and
\* has failed with the generic error, whose message is 'Request failed after
\* all retries'; a call made with a count of 1 or more has issued a request.
C26_NoAttemptNoRequest ==
    (op = "call" /\ phase # "idle") =>
        IF retries <= 0
        THEN /\ requests = 0
             /\ hist = <<>>
             /\ timers = {}
             /\ waited = 0
             /\ phase = "thrown"
             /\ result = GenericError
        ELSE requests >= 1

\* A call with a negative count has failed without a request.
C26_Witness ==
    /\ op = "call"
    /\ retries = -1
    /\ phase = "thrown"
    /\ result = GenericError
    /\ requests = 0

(***************************************************************************)
(* C27: handleApiError and the methods that end in it                      *)
(***************************************************************************)
HandledOps == {"ApiService.getStudents", "ApiService.getStudent",
               "ApiService.createStudent", "ApiService.updateStudent",
               "ApiService.deleteStudent"}

\* The three shapes of an error the catch block can hand to handleApiError.
ErrorShape(error) ==
    CASE error.status # 0 -> "response"
      [] error.kind \in {"ECONNABORTED", "ERR_NETWORK"} -> "request"
      [] OTHER -> "neither"

\* C27: handleApiError never returns normally, so a method of the API service
\* that ends in it either resolves with the body of the response or rejects
\* with an Error; after a failure of any shape (a response of any status, no
\* response, an error of the method's own code) it never resolves.
C27_HandledOpsResolveOrReject ==
    (op \in HandledOps /\ opState = "settled") =>
        /\ opResult # Undefined
        /\ opResult # NoError
        /\ IF Returned(opResult)
           THEN Answered2xx /\ opResult = hist[1]
           ELSE /\ opResult.kind = "Error"
                /\ phase = "thrown"
        /\ ~Answered2xx => Thrown(opResult)

\* A create whose request timed out has rejected.
C27_Witness ==
    /\ op = "ApiService.createStudent"
    /\ opState = "settled"
    /\ hist = <<[kind |-> "ECONNABORTED", status |-> 0, text |-> ""]>>
    /\ ErrorShape(hist[1]) = "request"
    /\ Thrown(opResult)
    /\ opResult = Message("Sin conexion al servidor")

(***************************************************************************)
(* The screens of the stack navigator of src/navigation/AppNavigator.js:   *)
(* MenuScreen, the initial route, and the screens it navigates to.  An     *)
(* alert is a modal dialog: while it is open the screen beneath takes no   *)
(* press.                                                                  *)
(***************************************************************************)
AppFrame == UNCHANGED <<restVars, concurrentVars, formVars, cache>>

MenuRoutes == {"Recognition", "StudentsList", "CreateStudent", "Settings"}

\* Mutant of requiresConnection: no option is marked as requiring the server.
requiresConnectionNever(screen) == FALSE

\* menuOptions[i].requiresConnection, by the screen of the option.
requiresConnection(screen) ==
    CASE screen = "Recognition"   -> TRUE
      [] screen = "StudentsList"  -> TRUE
      [] screen = "CreateStudent" -> TRUE
      [] screen = "Settings"      -> FALSE
      [] OTHER                    -> FALSE

\* The menu is in front and no alert covers it.
MenuInFront == menu.at = "Menu" /\ ~menu.alert /\ recognition.overlay = "none"

\* loadInitialData up to `await ApiService.checkHealth()`.
loadInitialData(m) == [m EXCEPT !.loading = TRUE, !.inHealth = @ + 1]

\* checkHealth settles for a run of loadInitialData: setServerStatus
\* ('connected') and on to getStudents, or catch and finally.
MenuHealthSettles ==
    /\ menu.inHealth > 0
    /\ \E out \in AxiosOutcomes :
          menu' = IF Thrown(ServiceResult("ApiService.checkHealth", out))
                  THEN [menu EXCEPT !.inHealth = @ - 1,
                                    !.serverStatus = "disconnected",
                                    !.loading = FALSE, !.last = "failed"]
                  ELSE [menu EXCEPT !.inHealth = @ - 1, !.inRoster = @ + 1,
                                    !.serverStatus = "connected"]
    /\ UNCHANGED <<settings, recognition>> /\ AppFrame

\* getStudents settles for a run: setStudentsCount(students.length), or catch;
\* then finally.
MenuRosterSettles ==
    /\ menu.inRoster > 0
    /\ \E out \in AxiosOutcomes :
          menu' = IF Thrown(ServiceResult("ApiService.getStudents", out))
                  THEN [menu EXCEPT !.inRoster = @ - 1,
                                    !.serverStatus = "disconnected",
                                    !.loading = FALSE, !.last = "failed"]
                  ELSE [menu EXCEPT !.inRoster = @ - 1,
                                    !.loading = FALSE, !.last = "ok"]
    /\ UNCHANGED <<settings, recognition>> /\ AppFrame

\* A new RecognitionScreen is mounted; what removed screens left goes on.
RecognitionScreen(r) ==
    [RecognitionMounted EXCEPT !.orphans = r.orphans, !.overlay = r.overlay,
                               !.alarm = r.alarm]

\* handleMenuPress(option); the buttons are disabled while loading.
handleMenuPress ==
    /\ MenuInFront
    /\ ~menu.loading
    /\ \E screen \in MenuRoutes :
          IF requiresConnection(screen) /\ menu.serverStatus # "connected"
          THEN /\ menu' = [menu EXCEPT !.alert = TRUE]
               /\ UNCHANGED <<settings, recognition>>
          ELSE /\ menu' = [menu EXCEPT !.at = screen]
               /\ settings' = IF screen = "Settings" THEN SettingsMounted
                              ELSE settings
               /\ recognition' = IF screen = "Recognition"
                                 THEN RecognitionScreen(recognition)
                                 ELSE recognition
    /\ AppFrame

\* 'Reintentar' of the alert: loadInitialData.
MenuAlertRetry ==
    /\ menu.alert
    /\ menu' = loadInitialData([menu EXCEPT !.alert = FALSE])
    /\ UNCHANGED <<settings, recognition>> /\ AppFrame

\* 'Cancelar' of the alert.
MenuAlertCancel ==
    /\ menu.alert
    /\ menu' = [menu EXCEPT !.alert = FALSE]
    /\ UNCHANGED <<settings, recognition>> /\ AppFrame

\* handleRefresh; the button is rendered only while not loading.
handleRefresh ==
    /\ MenuInFront
    /\ ~menu.loading
    /\ menu' = loadInitialData(menu)
    /\ UNCHANGED <<settings, recognition>> /\ AppFrame

\* The back button of the header: the screen in front is removed.  Nothing
\* cancels what the screen has started: the requests of a recognition screen
\* stay in flight.
AppBack ==
    /\ menu.at # "Menu"
    /\ recognition.overlay = "none"
    /\ menu.at = "Settings" => settings.report = "none"
    /\ menu.at = "Recognition" =>
          /\ recognition.dialog = "none" /\ ~recognition.picking
          /\ recognition.orphans + recognition.inFlight <= MaxOrphans
    /\ menu' = [menu EXCEPT !.at = "Menu"]
    /\ recognition' = IF menu.at = "Recognition"
                      THEN [recognition EXCEPT !.orphans = @ + recognition.inFlight,
                                               !.inFlight = 0]
                      ELSE recognition
    /\ UNCHANGED settings /\ AppFrame

\* The settings screen is in front and no alert covers it.
SettingsInFront ==
    /\ menu.at = "Settings"
    /\ settings.report = "none"
    /\ recognition.overlay = "none"

\* What checkServerHealth sets for an outcome of ApiService.checkHealth.
checkServerHealth(out) ==
    IF Thrown(ServiceResult("ApiService.checkHealth", out))
    THEN "disconnected" ELSE "connected"

\* The checkServerHealth started by useEffect settles.
SettingsMountCheckSettles ==
    /\ menu.at = "Settings"
    /\ settings.mountCheck
    /\ \E out \in AxiosOutcomes :
          settings' = [settings EXCEPT !.mountCheck = FALSE,
                                       !.serverStatus = checkServerHealth(out)]
    /\ UNCHANGED <<menu, recognition>> /\ AppFrame

\* loadStats settles: getRecognitionStats returns the stats or its default.
SettingsStatsSettle ==
    /\ menu.at = "Settings"
    /\ settings.stats = "pending"
    /\ settings' = [settings EXCEPT !.stats = "loaded"]
    /\ UNCHANGED <<menu, recognition>> /\ AppFrame

\* handleTestConnection up to `await checkServerHealth()`.  The function is
\* the one of the render that put the button on the screen: the serverStatus
\* it reads is a constant of that render.
handleTestConnection ==
    /\ SettingsInFront
    /\ ~settings.loading
    /\ settings' = [settings EXCEPT !.loading = TRUE, !.testing = TRUE,
                                   !.seen = settings.serverStatus,
                                   !.tested = "none"]
    /\ UNCHANGED <<menu, recognition>> /\ AppFrame

\* The health check of the test settles: checkServerHealth sets the state and
\* returns (it catches its error), then handleTestConnection shows the alert
\* by the serverStatus it has, and finally setLoading(false).
SettingsTestSettles ==
    /\ menu.at = "Settings"
    /\ settings.testing
    /\ \E out \in AxiosOutcomes :
          settings' = [settings EXCEPT
                          !.testing = FALSE, !.loading = FALSE,
                          !.serverStatus = checkServerHealth(out),
                          !.tested = IF checkServerHealth(out) = "connected"
                                     THEN "ok" ELSE "failed",
                          !.report = IF settings.seen = "connected"
                                     THEN "success" ELSE "failure"]
    /\ UNCHANGED <<menu, recognition>> /\ AppFrame

\* The alert of the test is dismissed.
SettingsAlertOk ==
    /\ menu.at = "Settings"
    /\ settings.report # "none"
    /\ settings' = [settings EXCEPT !.report = "none"]
    /\ UNCHANGED <<menu, recognition>> /\ AppFrame

(***************************************************************************)
(* RecognitionScreen of src/mobile/src/screens/RecognitionScreen.js.  The  *)
(* screen keeps no handle on its request: a request in flight when the     *)
(* screen is removed from the stack goes on, and later settles into the    *)
(* callbacks of the removed screen (orphans).  Its alerts, and the alert   *)
(* of the one-second timer, are shown over whatever is in front (overlay). *)
(***************************************************************************)
\* The recognition screen is in front: no alert and no picker covers it.
RecognitionInFront ==
    /\ menu.at = "Recognition"
    /\ recognition.dialog = "none"
    /\ ~recognition.picking
    /\ recognition.overlay = "none"

\* An alert of the mounted screen is the one in front.
RecognitionDialogInFront ==
    /\ menu.at = "Recognition"
    /\ recognition.dialog # "none"
    /\ recognition.overlay = "none"

\* handleStartRecognition: the alert with 'Cámara', 'Galería', 'Cancelar'.
\* The button is disabled while loading.
handleStartRecognition ==
    /\ RecognitionInFront
    /\ ~recognition.loading
    /\ recognition' = [recognition EXCEPT !.dialog = "picker"]
    /\ UNCHANGED <<menu, settings>> /\ AppFrame

\* openCamera / openGallery: launchCamera or launchImageLibrary with
\* handleImageResponse as the callback.
openCamera ==
    /\ RecognitionDialogInFront
    /\ recognition.dialog = "picker"
    /\ recognition' = [recognition EXCEPT !.dialog = "none", !.picking = TRUE]
    /\ UNCHANGED <<menu, settings>> /\ AppFrame

\* recognizeImage(imageFile) up to `await ApiService.recognizeStudent(...)`.
recognizeImage(r) ==
    [r EXCEPT !.loading = TRUE, !.inFlight = @ + 1, !.dialog = "processing"]

\* handleImageResponse(response): didCancel (or a response without assets)
\* returns, error alerts, an asset is selected and recognizeImage starts.
handleImageResponse ==
    /\ menu.at = "Recognition"
    /\ recognition.picking
    /\ \E response \in {"didCancel", "error", "assets"} :
          recognition' =
              CASE response = "didCancel" ->
                       [recognition EXCEPT !.picking = FALSE]
                [] response = "error" ->
                       [recognition EXCEPT !.picking = FALSE,
                                           !.dialog = "pickError"]
                [] OTHER ->
                       recognizeImage([recognition EXCEPT !.picking = FALSE,
                                                          !.image = TRUE,
                                                          !.settled = "none"])
    /\ UNCHANGED <<menu, settings>> /\ AppFrame

\* What `await ApiService.recognizeStudent(imageFile)` can give.
RecognitionAnswers ==
    {ServiceResult("ApiService.recognizeStudent", out) : out \in AxiosOutcomes}

\* recognizeImage fails for what ApiService.recognizeStudent gave: it threw, or
\* it returned null and `response.found` throws inside the try.
RecognitionFailed(res) == Thrown(res) \/ res.kind = "null"

\* isFound && response.student
RecognitionFound(res, found) == res.kind = "data" /\ found

\* The request of the mounted screen settles: setResult and the alert of the
\* result, or the catch with its alert; finally setLoading(false).  A flagged
\* student starts the timer of the security alert.
RecognitionSettles ==
    /\ menu.at = "Recognition"
    /\ recognition.inFlight > 0
    /\ \E res \in RecognitionAnswers, found \in BOOLEAN, requisitoriado \in BOOLEAN :
          recognition' =
              IF RecognitionFailed(res)
              THEN [recognition EXCEPT !.inFlight = @ - 1, !.loading = FALSE,
                                       !.dialog = "error", !.settled = "failure"]
              ELSE [recognition EXCEPT
                       !.inFlight = @ - 1, !.loading = FALSE,
                       !.dialog = "result",
                       !.settled = IF RecognitionFound(res, found)
                                   THEN "found" ELSE "notFound",
                       !.alarm = @ \/ (RecognitionFound(res, found) /\ requisitoriado)]
    /\ UNCHANGED <<menu, settings>> /\ AppFrame

\* 'Reintentar' of the error alert: recognizeImage(imageFile).
RecognitionRetry ==
    /\ RecognitionDialogInFront
    /\ recognition.dialog = "error"
    /\ recognition' = recognizeImage([recognition EXCEPT !.retried = TRUE])
    /\ UNCHANGED <<menu, settings>> /\ AppFrame

\* 'OK' or 'Cancelar' of the alert in front.
RecognitionDialogDismissed ==
    /\ RecognitionDialogInFront
    /\ recognition' = [recognition EXCEPT !.dialog = "none"]
    /\ UNCHANGED <<menu, settings>> /\ AppFrame

\* resetRecognition; the button is rendered with an image and not loading.
resetRecognition ==
    /\ RecognitionInFront
    /\ recognition.image
    /\ ~recognition.loading
    /\ recognition' = [recognition EXCEPT !.image = FALSE, !.settled = "none"]
    /\ UNCHANGED <<menu, settings>> /\ AppFrame

\* The setTimeout of the security alert fires; nothing clears it.
SecurityAlertFires ==
    /\ recognition.alarm
    /\ recognition' = [recognition EXCEPT !.alarm = FALSE, !.overlay = "security"]
    /\ UNCHANGED <<menu, settings>> /\ AppFrame

\* A request of a removed screen settles: its setResult and setLoading act on
\* nothing, its alert is shown.
OrphanSettles ==
    /\ recognition.orphans > 0
    /\ \E res \in RecognitionAnswers, found \in BOOLEAN, requisitoriado \in BOOLEAN :
          recognition' =
              IF RecognitionFailed(res)
              THEN [recognition EXCEPT !.orphans = @ - 1, !.overlay = "orphanError"]
              ELSE [recognition EXCEPT
                       !.orphans = @ - 1, !.overlay = "orphanResult",
                       !.alarm = @ \/ (RecognitionFound(res, found) /\ requisitoriado)]
    /\ UNCHANGED <<menu, settings>> /\ AppFrame

\* 'Reintentar' of the error alert of a removed screen: its recognizeImage
\* sends the request again.
OrphanRetry ==
    /\ recognition.overlay = "orphanError"
    /\ recognition.orphans < MaxOrphans
    /\ recognition' = [recognition EXCEPT !.orphans = @ + 1,
                                          !.overlay = "orphanProcessing"]
    /\ UNCHANGED <<menu, settings>> /\ AppFrame

\* 'OK', 'Entendido' or 'Cancelar' of an alert shown over the screens.
OverlayDismissed ==
    /\ recognition.overlay # "none"
    /\ recognition' = [recognition EXCEPT !.overlay = "none"]
    /\ UNCHANGED <<menu, settings>> /\ AppFrame

NextApp ==
    \/ MenuHealthSettles
    \/ MenuRosterSettles
    \/ handleMenuPress
    \/ MenuAlertRetry
    \/ MenuAlertCancel
    \/ handleRefresh
    \/ AppBack
    \/ SettingsMountCheckSettles
    \/ SettingsStatsSettle
    \/ handleTestConnection
    \/ SettingsTestSettles
    \/ SettingsAlertOk
    \/ handleStartRecognition
    \/ openCamera
    \/ handleImageResponse
    \/ RecognitionSettles
    \/ RecognitionRetry
    \/ RecognitionDialogDismissed
    \/ resetRecognition
    \/ SecurityAlertFires
    \/ OrphanSettles
    \/ OrphanRetry
    \/ OverlayDismissed

SpecApp == Init /\ [][NextApp]_vars

(***************************************************************************)
(* C28: what the menu lets the user open                                   *)
(***************************************************************************)
BackendRoutes == {"Recognition", "StudentsList", "CreateStudent"}

\* C28: the menu navigates to a screen that requires the backend only when
\* the run of loadInitialData that completed last had its health check and its
\* roster fetch succeed, and no run is in progress; once a run has failed
\* serverStatus is 'disconnected' until another run is started.
C28_BackendScreensNeedGoodRun ==
    [][ /\ (menu.at = "Menu" /\ menu'.at \in BackendRoutes) =>
              /\ menu.last = "ok"
              /\ menu.serverStatus = "connected"
              /\ menu.inHealth + menu.inRoster = 0
        /\ (menu'.last = "failed" /\ menu'.inHealth + menu'.inRoster = 0) =>
              menu'.serverStatus = "disconnected"
        /\ (menu.at = "Menu" /\ menu'.at = "Settings") => ~menu.loading
      ]_vars

\* Runs of loadInitialData never overlap, and loading is true exactly while
\* one is in progress.
MenuRunsOneAtATime ==
    /\ menu.inHealth + menu.inRoster <= 1
    /\ menu.loading <=> (menu.inHealth + menu.inRoster = 1)

\* A press on the Settings option that navigates.
OpenSettings == handleMenuPress /\ menu'.at = "Settings"

\* Settings stays reachable: whatever the last run ended with, with the menu
\* in front and no run in progress the Settings option navigates.
SettingsStaysReachable ==
    (MenuInFront /\ ~menu.loading) => ENABLED OpenSettings

\* After a run whose health check and roster fetch succeeded, the recognition
\* screen has been opened from the menu.
C28_Witness ==
    /\ menu.at = "Recognition"
    /\ menu.last = "ok"
    /\ menu.serverStatus = "connected"
    /\ ~menu.loading

(***************************************************************************)
(* C29: the connection test of the settings screen                         *)
(***************************************************************************)

\* C29 (as claimed): the alert of the connection test says success exactly
\* when the health check that test performed succeeded, and failure exactly
\* when it failed, whatever serverStatus was when the test started.
C29_TestReportsItsOwnCheck ==
    settings.report # "none" =>
        /\ (settings.report = "success") <=> (settings.tested = "ok")
        /\ (settings.report = "failure") <=> (settings.tested = "failed")

\* What does hold: the alert says what serverStatus was when the button was
\* pressed.
TestReportsEarlierStatus ==
    settings.report # "none" =>
        /\ (settings.report = "success") <=> (settings.seen = "connected")
        /\ (settings.report = "failure") <=> (settings.seen # "connected")

\* C30: in the recognition screen at most one recognition request is in
\* flight, and the loading flag is true exactly while a request is in flight.
C30_OneRequestLoadingWhileInFlight ==
    menu.at = "Recognition" =>
        /\ recognition.inFlight + recognition.orphans <= 1
        /\ recognition.loading <=> (recognition.inFlight + recognition.orphans > 0)

\* What does hold: of the requests the mounted screen has started itself at
\* most one is in flight, and its loading flag is true exactly while that one
\* is, after a retry from the error alert as well.
MountedScreenOneRequest ==
    menu.at = "Recognition" =>
        /\ recognition.inFlight <= 1
        /\ recognition.loading <=> (recognition.inFlight = 1)

\* A retry from the error alert has settled and the flag is false again.
RetrySettled ==
    ~(/\ menu.at = "Recognition"
      /\ recognition.retried
      /\ recognition.settled = "failure"
      /\ ~recognition.loading)

====
